---- MODULE Spec2Model ----
(***************************************************************************)
(* The realtime user analytics pipeline:                                   *)
(*  - storage: EventStorageService.validate_event, store_event and         *)
(*    log_dead_letter (src/src/consumer/event_storage_service.py) over the *)
(*    users, user_events, user_stats and dead_letter_queue tables          *)
(*    (src/src/database/models.py);                                        *)
(*  - ingestion: the loop of main (src/src/consumer/user_event_consumer.py)*)
(*    over KafkaConsumerService (src/src/consumer/kafka_consumer_service.py)*)
(*                                                                         *)
(* Representation:                                                         *)
(*  - a payload is a Python dict: the set of its keys plus one value per   *)
(*    key (a key that is not in `keys` carries a canonical filler);        *)
(*  - a JSON number / None / string value is a tagged record [k, v];       *)
(*  - money is counted in thousandths of a currency unit (mills), so that  *)
(*    the two-decimal scale of Numeric(10, 2) is a real conversion;        *)
(*  - a Float column holds an exact rational [n, d] in lowest terms        *)
(*    (binary rounding of floats is not modelled);                         *)
(*  - a DateTime is an integer, 0 standing for NULL;                       *)
(*  - a topic partition is a sequence of messages; the message at index o  *)
(*    has offset o, and an offset position q (consumed or committed) means *)
(*    "the next message to fetch is q": it covers the messages below q.    *)
(***************************************************************************)
EXTENDS Integers, Sequences, FiniteSets, TLC

VARIABLES
    users,      \* committed rows of table users
    events,     \* committed rows of table user_events
    stats,      \* committed rows of table user_stats
    paid,       \* history: event_id -> amount of the payload that was stored
    last,       \* the most recent call: its payload, the storage fault it met
                \* and what the caller saw
    dlq,        \* committed rows of table dead_letter_queue
    log,        \* the messages of the topic partition, by offset
    position,   \* the consumer's position in the partition
    committed,  \* the committed offset of the consumer group
    is_connected,       \* KafkaConsumerService.is_connected
    msg,        \* main: offset of the message in hand, 0 for none
    pc,         \* main: "loop" (top of the while loop), "poll", "process",
                \* "exited"
    consumer_state,     \* ConsumerState: the four counters
    shutdown_requested, \* the flag set by signal_handler
    step,       \* history: what the loop did with the latest message it handled
    run,        \* history: polls, attempts, first deliveries (see NoRun)
    writers     \* concurrent store_event calls: each session's position and
                \* pending rows

storageVars == <<users, events, stats, paid, last>>

coordinatorVars ==
    <<dlq, log, position, committed, is_connected, msg, pc, consumer_state,
      shutdown_requested, step, run>>

vars ==
    <<users, events, stats, paid, last, dlq, log, position, committed,
      is_connected, msg, pc, consumer_state, shutdown_requested, step, run,
      writers>>

----------------------------------------------------------------------------
(* Bounds of the model *)

MaxEventId == 2         \* event identifiers are 1..MaxEventId
MaxVolumeId == 20       \* event identifiers of the high-volume runs
MaxMixedId == 3         \* high-volume runs: ids up to here may be clicks
MaxLog == 3             \* messages in the topic partition
MaxPolls == 4           \* messages fetched over all runs, redeliveries included
MaxShutdownLog == 2     \* messages in the partition of the run that is shut down
MaxLetters == 2         \* dead-letter entries written by direct calls
MaxOffset == 3          \* offsets of the messages polled by direct calls
MaxMark == 2            \* watermarks and committed offsets are 0..MaxMark
MaxGenerated == 2       \* identifiers of the generated events are 1..MaxGenerated

(* Program constants *)

ScoreCapPoints == 100   \* min(100.0, ...)
PurchaseWeightHalves == 10  \* total_purchases * 5.0, in half points
MoneyScaleStep == 10    \* Numeric(10, 2): one cent is 10 mills

----------------------------------------------------------------------------
(* Values *)

None == [k |-> "none", v |-> 0]
Num(n) == [k |-> "num", v |-> n]
NaN == [k |-> "nan", v |-> 0]
Inf == [k |-> "inf", v |-> 0]
Str == [k |-> "str", v |-> 0]          \* a string that is no number: "abc"

(* A rational in lowest terms, with a positive denominator. *)
RECURSIVE GCD(_, _)
GCD(a, b) == IF b = 0 THEN a ELSE GCD(b, a % b)

Abs(x) == IF x < 0 THEN -x ELSE x

Rat(n, d) ==
    LET g == GCD(Abs(n), d)
    IN  [n |-> n \div g, d |-> d \div g]

RatLeq(a, b) == a.n * b.d <= b.n * a.d

RatMin(a, b) == IF RatLeq(a, b) THEN a ELSE b

----------------------------------------------------------------------------
(* Payloads *)

REQUIRED_FIELDS == {"user_id", "event_id", "event_type", "timestamp"}

VALID_EVENT_TYPES ==
    {"click", "purchase", "view", "search", "login", "logout", "video", "other"}

(* datetime.fromisoformat: the ISO strings of the model and the instants   *)
(* they denote.  Any other string raises ValueError, a value that is not a *)
(* string (JSON null, a number) raises TypeError.                          *)
IsoStrings == {"2024-01-15T10:00:00", "2024-01-15T11:00:00"}
NotAString == "<null>"
BadDate == "not-a-timestamp"

fromisoformat(s) ==
    IF s = "2024-01-15T10:00:00" THEN [exc |-> "", value |-> 1]
    ELSE IF s = "2024-01-15T11:00:00" THEN [exc |-> "", value |-> 2]
    ELSE IF s = NotAString THEN [exc |-> "TypeError", value |-> 0]
    ELSE [exc |-> "ValueError", value |-> 0]

(* A dict with the four required keys only. *)
Base(u, e, t, ts) ==
    [keys |-> REQUIRED_FIELDS, user_id |-> u, event_id |-> e, event_type |-> t,
     timestamp |-> ts, amount |-> None, duration |-> None, email |-> "None"]

WithAmount(p, a) == [p EXCEPT !.keys = @ \cup {"amount"}, !.amount = a]
WithDuration(p, d) == [p EXCEPT !.keys = @ \cup {"duration"}, !.duration = d]
WithEmail(p, m) == [p EXCEPT !.keys = @ \cup {"email"}, !.email = m]

Without(p, key) ==
    [p EXCEPT !.keys = @ \ {key},
              ![key] = IF key = "event_id" THEN 0 ELSE "None"]

(* dict.get(key): the value, or None when the key is absent. *)
GetAmount(p) == IF "amount" \in p.keys THEN p.amount ELSE None
GetDuration(p) == IF "duration" \in p.keys THEN p.duration ELSE None
GetEmail(p) == IF "email" \in p.keys THEN p.email ELSE "None"

----------------------------------------------------------------------------
(* EventStorageService.validate_event *)

Verdict(is_valid, error_msg, missing, raw) ==
    [ok |-> is_valid, msg |-> error_msg, missing |-> missing, raw |-> raw]

(* Variant: the sign of the amount is not tested *)
AmountRuleAnySign(amount) ==
    IF amount.k = "none" THEN Verdict(FALSE, "Purchase event missing 'amount'", {}, "")
    ELSE IF amount.k = "str" THEN Verdict(FALSE, "Amount not numeric", {}, "")
    ELSE Verdict(TRUE, "", {}, "")

(* float(amount) followed by the test amount <= 0 *)
AmountRule(amount) ==
    IF amount.k = "none" THEN Verdict(FALSE, "Purchase event missing 'amount'", {}, "")
    ELSE IF amount.k = "str" THEN Verdict(FALSE, "Amount not numeric", {}, "")
    ELSE IF amount.k = "num" /\ amount.v <= 0
        THEN Verdict(FALSE, "Invalid amount (must be positive)", {}, "")
    ELSE Verdict(TRUE, "", {}, "")     \* nan <= 0 and inf <= 0 are both False

validate_event(p) ==
    LET missing == REQUIRED_FIELDS \ p.keys
        parsed == fromisoformat(p.timestamp)
    IN  IF missing # {} THEN Verdict(FALSE, "Missing required fields", missing, "")
        ELSE IF parsed.exc = "ValueError"
            THEN Verdict(FALSE, "Invalid timestamp format", {}, p.timestamp)
        ELSE IF parsed.exc # ""
            THEN Verdict(FALSE, "Validation error", {}, "")   \* except Exception
        ELSE IF p.event_type = "purchase" THEN AmountRule(GetAmount(p))
        ELSE Verdict(TRUE, "", {}, "")

(* logger.warning("Unknown event type ..."): the soft flag of rule 3 *)
warns_unknown_type(p) ==
    /\ REQUIRED_FIELDS \subseteq p.keys
    /\ fromisoformat(p.timestamp).exc = ""
    /\ p.event_type \notin VALID_EVENT_TYPES

----------------------------------------------------------------------------
(* Tables.  A session works on a private copy (tx) of the committed        *)
(* database (db): flush() writes rows into tx, commit() makes tx the       *)
(* committed database, rollback() drops tx.                                *)

Db(u, e, s) == [users |-> u, events |-> e, stats |-> s]

EmptyDb == Db({}, {}, {})

(* Column defaults of UserStats *)
NewStats(user_id) ==
    [user_id |-> user_id, total_events |-> 0, total_purchases |-> 0,
     total_spent |-> Num(0), last_active |-> 0, last_purchase |-> 0,
     avg_session_duration |-> Rat(0, 1), engagement_score |-> Rat(0, 1)]

(* Variant: every flush is committed at once *)
FlushAutocommit(db, tx) == [db |-> tx, tx |-> tx]

(* db.flush(): the pending rows reach the transaction, not the database *)
Flush(db, tx) == [db |-> db, tx |-> tx]

(* db.commit() *)
Commit(db, tx) == tx

(* Variant: the pending rows stay in the session *)
RollbackKeeps(db, tx) == tx

(* db.rollback() *)
Rollback(db, tx) == db

(* Decimal(str(amount)) *)
ToDecimal(amount) == IF amount.k = "none" THEN Num(0) ELSE amount

(* Decimal + Decimal: a quiet NaN or an infinity absorbs the sum *)
DecimalAdd(a, b) ==
    IF a.k = "num" /\ b.k = "num" THEN Num(a.v + b.v)
    ELSE IF a.k = "nan" \/ b.k = "nan" THEN NaN
    ELSE Inf

(* Writing a Decimal into Numeric(10, 2) keeps two decimals (here: rounds  *)
(* mills to whole cents, half away from zero; the amounts of the model     *)
(* never fall on a tie).                                                   *)
Quantize(x) ==
    IF x.k # "num" THEN x
    ELSE Num(((x.v + (MoneyScaleStep \div 2)) \div MoneyScaleStep) * MoneyScaleStep)

(* Python truth value of event_data.get("duration") *)
Truthy(x) == ~(x.k = "none" \/ (x.k = "num" /\ x.v = 0))

(* Variant: the score is not capped *)
EngagementUncapped(total_events, total_purchases) ==
    Rat(total_events + PurchaseWeightHalves * total_purchases, 2)

(* min(100.0, total_events * 0.5 + total_purchases * 5.0) *)
Engagement(total_events, total_purchases) ==
    RatMin(Rat(ScoreCapPoints, 1),
           Rat(total_events + PurchaseWeightHalves * total_purchases, 2))

(* The running average of step 5 *)
RunningAverage(old_avg, old_duration_count, duration) ==
    IF old_duration_count > 0
    THEN Rat(old_avg.n * old_duration_count + duration * old_avg.d,
             old_avg.d * (old_duration_count + 1))
    ELSE Rat(duration, 1)

----------------------------------------------------------------------------
(* EventStorageService.store_event *)

Faults == {"none", "lookup", "user", "event", "stats", "commit"}

(* What a call leaves behind and what its caller sees: the committed       *)
(* database, the returned value (ret, 0 for None) or the raised exception  *)
(* class (exc), and the number of storage statements it issued (ops).      *)
Finish(db, outcome, ret, exc, verdict, ops) ==
    [db |-> db, outcome |-> outcome, ret |-> ret, exc |-> exc,
     verdict |-> verdict, ops |-> ops]

(* Variant: no lookup, the unique index is left to catch a repeated id *)
ExistingEventUnchecked(db, event_id) == FALSE

(* Step 2: db.query(UserEvent).filter(event_id == ...).first() is not None *)
ExistingEvent(db, event_id) == \E ev \in db.events : ev.event_id = event_id

(* The unique index on users.email (NULLs never collide) *)
EmailTaken(tx, email) ==
    email # "None" /\ \E u \in tx.users : u.email = email

(* Variant: the profile fields of the payload are not taken over *)
NewUserBare(p, timestamp) ==
    [user_id |-> p.user_id, email |-> "None", signup_date |-> timestamp]

(* Step 3: the User row built from the payload *)
NewUser(p, timestamp) ==
    [user_id |-> p.user_id, email |-> GetEmail(p), signup_date |-> timestamp]

(* Step 4a: events of the user that already carry a duration *)
DurationCount(tx, user_id) ==
    Cardinality({ev \in tx.events : ev.user_id = user_id /\ ev.duration.k # "none"})

(* Variant: an unknown kind is rewritten, as the warning's text announces *)
StoredEventTypeAsOther(event_type) ==
    IF event_type \in VALID_EVENT_TYPES THEN event_type ELSE "other"

(* Step 4b: event_type=event_type *)
StoredEventType(event_type) == event_type

(* Step 4b: the UserEvent row built from the payload *)
NewEvent(p, timestamp) ==
    [event_id |-> p.event_id, user_id |-> p.user_id,
     event_type |-> StoredEventType(p.event_type),
     timestamp |-> timestamp, duration |-> GetDuration(p)]

(* Step 5: update of avg_session_duration *)
UpdateAverage(row, p, old_duration_count) ==
    IF Truthy(GetDuration(p))
    THEN [row EXCEPT !.avg_session_duration =
              RunningAverage(@, old_duration_count, GetDuration(p).v)]
    ELSE row

(* Variant: the counter is assigned, not incremented *)
CountEventAssigned(row, timestamp) ==
    [row EXCEPT !.total_events = 1, !.last_active = timestamp]

(* Step 5: "Always increment" *)
CountEvent(row, timestamp) ==
    [row EXCEPT !.total_events = @ + 1, !.last_active = timestamp]

(* Variant: every event counts as a purchase *)
CountPurchaseAnyKind(row, p, timestamp) ==
    [row EXCEPT !.total_purchases = @ + 1,
                !.total_spent = DecimalAdd(@, ToDecimal(GetAmount(p))),
                !.last_purchase = timestamp]

(* Step 5: type-specific updates *)
CountPurchase(row, p, timestamp) ==
    IF p.event_type = "purchase"
    THEN [row EXCEPT !.total_purchases = @ + 1,
                     !.total_spent = DecimalAdd(@, ToDecimal(GetAmount(p))),
                     !.last_purchase = timestamp]
    ELSE row

(* Step 5: engagement score from the updated counts *)
Score(row) ==
    [row EXCEPT !.engagement_score = Engagement(row.total_events, row.total_purchases)]

(* Step 5 on the user's stats row, as the UPDATE statement writes it *)
UpdateStats(row, p, timestamp, old_duration_count) ==
    LET updated == Score(CountPurchase(CountEvent(
                       UpdateAverage(row, p, old_duration_count), timestamp),
                       p, timestamp))
    IN  [updated EXCEPT !.total_spent = Quantize(@)]

(* Variant: the row of a repeated event_id is replaced by the new payload *)
store_event_upsert(db, p, fault) ==
    IF ~validate_event(p).ok
    THEN Finish(db, "raised", 0, "ValueError", validate_event(p), 0)
    ELSE Finish([db EXCEPT !.events =
                    {ev \in @ : ev.event_id # p.event_id}
                        \cup {NewEvent(p, fromisoformat(p.timestamp).value)}],
                "stored", p.event_id, "", validate_event(p), 1)

store_event(db, p, fault) ==
    LET verdict == validate_event(p)
        user_id == p.user_id
        event_id == p.event_id
        timestamp == fromisoformat(p.timestamp).value
        user_found == \E u \in db.users : u.user_id = user_id
        user == NewUser(p, timestamp)
        s1 == IF user_found THEN Flush(db, db)
              ELSE Flush(db, [db EXCEPT !.users = @ \cup {user}])
        dv == GetDuration(p)
        old_duration_count == DurationCount(s1.tx, user_id)
        user_event == NewEvent(p, timestamp)
        s2 == Flush(s1.db, [s1.tx EXCEPT !.events = @ \cup {user_event}])
        stats_found == \E r \in s2.tx.stats : r.user_id = user_id
        s3 == IF stats_found THEN s2
              ELSE Flush(s2.db, [s2.tx EXCEPT !.stats = @ \cup {NewStats(user_id)}])
        row == CHOOSE r \in s3.tx.stats : r.user_id = user_id
        s4 == [s3 EXCEPT !.tx.stats =
                   (@ \ {row}) \cup {UpdateStats(row, p, timestamp, old_duration_count)}]
        nUser == IF user_found THEN 0 ELSE 1
        nCount == IF Truthy(dv) THEN 1 ELSE 0
        nStats == IF stats_found THEN 0 ELSE 1
    IN  IF ~verdict.ok                                   \* raise ValueError(error_msg)
            THEN Finish(Rollback(db, db), "raised", 0, "ValueError", verdict, 0)
        ELSE IF fault = "lookup"
            THEN Finish(Rollback(db, db), "raised", 0, "SQLAlchemyError", verdict, 1)
        ELSE IF ExistingEvent(db, event_id)              \* return event_id
            THEN Finish(db, "duplicate", event_id, "", verdict, 1)
        ELSE IF ~user_found /\ fault = "user"
            THEN Finish(Rollback(s1.db, s1.tx), "raised", 0, "SQLAlchemyError", verdict, 3)
        ELSE IF ~user_found /\ EmailTaken(db, user.email) \* IntegrityError: return None
            THEN Finish(Rollback(s1.db, s1.tx), "conflict", 0, "", verdict, 3)
        ELSE IF Truthy(dv) /\ dv.k # "num"               \* float(duration_value) raises
            THEN Finish(Rollback(s1.db, s1.tx), "raised", 0, "ValueError", verdict,
                        2 + nUser)
        ELSE IF fault = "event"
            THEN Finish(Rollback(s2.db, s2.tx), "raised", 0, "SQLAlchemyError", verdict,
                        3 + nUser + nCount)
        ELSE IF \E ev \in s1.tx.events : ev.event_id = event_id
                                                         \* unique index on event_id
            THEN Finish(Rollback(s2.db, s2.tx), "conflict", 0, "", verdict,
                        3 + nUser + nCount)
        ELSE IF fault = "stats"
            THEN Finish(Rollback(s3.db, s3.tx), "raised", 0, "SQLAlchemyError", verdict,
                        4 + nUser + nCount + nStats)
        ELSE IF fault = "commit"
            THEN Finish(Rollback(s4.db, s4.tx), "raised", 0, "SQLAlchemyError", verdict,
                        5 + nUser + nCount + nStats)
        ELSE Finish(Commit(s4.db, s4.tx), "stored", event_id, "", verdict,
                    5 + nUser + nCount + nStats)

----------------------------------------------------------------------------
(* Inputs *)

Users == {"u1", "u2"}
EventIds == 1 .. MaxEventId
T1 == "2024-01-15T10:00:00"
T2 == "2024-01-15T11:00:00"

(* Payloads that pass validation *)
ClickPayloads == {Base(u, e, "click", T1) : u \in Users, e \in EventIds}
CustomPayloads == {Base(u, e, "custom_kind", T1) : u \in Users, e \in EventIds}
PurchasePayloads ==
    {WithAmount(Base(u, e, "purchase", T1), Num(30000)) : u \in Users, e \in EventIds}
EmailPayloads ==
    {WithEmail(Base(u, e, "click", T1), "a@example.com") : u \in Users, e \in EventIds}
DurationPayloads ==
    {WithDuration(Base("u2", e, "video", T1), Num(10)) : e \in EventIds}

(* Payloads that fail validation *)
InvalidPayloads ==
    UNION {{Without(Base(u, e, "click", T1), "event_type"),
            Base(u, e, "click", BadDate),
            WithAmount(Base(u, e, "purchase", T1), Num(-5000))} :
           u \in Users, e \in EventIds}

StorePayloads ==
    ClickPayloads \cup CustomPayloads \cup PurchasePayloads \cup EmailPayloads
        \cup DurationPayloads \cup InvalidPayloads

----------------------------------------------------------------------------
(* State machine *)

NoCall ==
    [op |-> "none", p |-> Base("None", 0, "None", "None"), outcome |-> "none",
     ret |-> 0, exc |-> "", verdict |-> Verdict(TRUE, "", {}, ""), ops |-> 0,
     fault |-> "none"]

(* ConsumerState.__init__ *)
ZeroCounters == [processed |-> 0, failed |-> 0, duplicates |-> 0, dlq_logged |-> 0]

NoStep ==
    [op |-> "none", offset |-> 0, outcome |-> "none", exc |-> "", ret |-> 0,
     dlq_attempted |-> FALSE, dlq_written |-> FALSE, commit_attempted |-> FALSE,
     commit_ok |-> FALSE, was_stored |-> FALSE, fault |-> "none",
     opened |-> 0, closed |-> 0]

(* polls: messages fetched so far; attempted: offsets whose storage attempt *)
(* has concluded; failed_for: offsets the failed counter was incremented    *)
(* for; seen: event ids handled so far; ideal: the database that handling   *)
(* every event id once, in order of first delivery, produces; faulted: a    *)
(* storage statement has failed; after_flag: messages fetched after the     *)
(* shutdown flag was set; interrupted: offset of the message that was in    *)
(* hand when the flag was set (0 for none); handled: messages the running   *)
(* process has handled.                                                     *)
NoRun ==
    [polls |-> 0, attempted |-> {}, failed_for |-> {}, seen |-> {},
     ideal |-> EmptyDb, faulted |-> FALSE, after_flag |-> 0, interrupted |-> 0,
     handled |-> 0]

(* The sessions that call store_event concurrently *)
Writers == {"w1", "w2"}

(* A session outside store_event: nothing pending *)
Idle ==
    [pc |-> "idle", p |-> NoCall.p, users |-> {}, events |-> {}, stats |-> {},
     row |-> NewStats("None"), old_duration_count |-> 0, outcome |-> "none",
     ret |-> 0, exc |-> "", key |-> "", passed_lookup |-> FALSE]

(* The tables after init_db *)
InitStorage ==
    /\ users = {}
    /\ events = {}
    /\ stats = {}
    /\ paid = {}
    /\ last = NoCall
    /\ dlq = {}

(* The consumer before anything is delivered *)
InitConsumer ==
    /\ position = 1
    /\ committed = 1
    /\ is_connected = TRUE
    /\ msg = 0
    /\ pc = "loop"
    /\ consumer_state = ZeroCounters
    /\ shutdown_requested = FALSE
    /\ step = NoStep
    /\ run = NoRun

Init ==
    /\ InitStorage
    /\ InitConsumer
    /\ log = <<>>
    /\ writers = [w \in Writers |-> Idle]

(* One call of store_event on a fresh session.  A fault is an input of the  *)
(* call only where the call reaches the statement the fault strikes.       *)
StoreEvent(p, fault) ==
    \E r \in {store_event(Db(users, events, stats), p, fault)} :
        /\ fault = "none" \/ r.exc = "SQLAlchemyError"
        /\ users' = r.db.users
        /\ events' = r.db.events
        /\ stats' = r.db.stats
        /\ paid' = IF r.outcome = "stored"
                   THEN paid \cup {[event_id |-> p.event_id, amount |-> GetAmount(p)]}
                   ELSE paid
        /\ last' = [op |-> "store_event", p |-> p, outcome |-> r.outcome,
                    ret |-> r.ret, exc |-> r.exc, verdict |-> r.verdict,
                    ops |-> r.ops, fault |-> fault]
        /\ UNCHANGED <<coordinatorVars, writers>>

Next == \E p \in StorePayloads, fault \in Faults : StoreEvent(p, fault)

Spec == Init /\ [][Next]_vars

----------------------------------------------------------------------------
(* Properties of store_event under Spec *)

Called(l) == l.op = "store_event"

(* An Event row with this identifier is committed *)
Stored(event_id) == \E ev \in events : ev.event_id = event_id

(* The call met a failure after validation *)
Failed(l) == Called(l) /\ l.verdict.ok /\ l.outcome \notin {"stored", "duplicate"}

(* C1 as stated: a call whose event_id is already stored returns that      *)
(* event_id, raises nothing and leaves every User, Event and Stats row     *)
(* unchanged, whatever the other fields of the payload are.                *)
C1_DuplicateAlwaysReturnsId ==
    [][(Called(last') /\ Stored(last'.p.event_id))
        => /\ last'.ret = last'.p.event_id
           /\ last'.exc = ""
           /\ UNCHANGED <<users, events, stats>>]_vars

(* C1 amended: a call whose event_id is already stored leaves every User,  *)
(* Event and Stats row unchanged; when its payload passes validation and   *)
(* the duplicate lookup itself does not fail, it returns that event_id and *)
(* raises nothing, whatever the other fields of the payload are.           *)
C1_DuplicateIsNoOp ==
    [][(Called(last') /\ Stored(last'.p.event_id))
        => /\ UNCHANGED <<users, events, stats>>
           /\ (validate_event(last'.p).ok /\ last'.fault = "none")
                => /\ last'.outcome = "duplicate"
                   /\ last'.ret = last'.p.event_id
                   /\ last'.exc = ""]_vars

(* A duplicate was answered whose user, kind and duration differ from the   *)
(* stored row                                                              *)
C1_Witness ==
    /\ Called(last) /\ last.outcome = "duplicate"
    /\ \E ev \in events : /\ ev.event_id = last.p.event_id
                          /\ ev.user_id # last.p.user_id
                          /\ ev.event_type # last.p.event_type
                          /\ ev.duration # GetDuration(last.p)
                          /\ ev.duration.k = "num"

(* A successful call shows the user, the event and the stats together *)
VisibleTogether ==
    (Called(last') /\ last'.outcome = "stored")
        => /\ \E ev \in events' :
                /\ ev.event_id = last'.p.event_id
                /\ ev.user_id = last'.p.user_id
                /\ events' = events \cup {ev}
                /\ ev \notin events
           /\ \E u \in users' : u.user_id = last'.p.user_id
           /\ users' \ users \subseteq {u \in users' : u.user_id = last'.p.user_id}
           /\ \E r \in stats' : r.user_id = last'.p.user_id /\ r.total_events >= 1

EmailCollides(p) ==
    /\ ~\E u \in users : u.user_id = p.user_id
    /\ "email" \in p.keys
    /\ \E u \in users : u.email = p.email

EventsOf(user_id) == {ev \in events : ev.user_id = user_id}

StatsOf(user_id) == {r \in stats : r.user_id = user_id}

(* C3: for every user, Stats.total_events equals the number of Event rows  *)
(* stored for that user (a user without events has no Stats row), after    *)
(* any mix of valid, invalid, duplicate and failing calls.                 *)
C3_TotalEventsCountsRows ==
    \A u \in Users :
        /\ Cardinality(StatsOf(u)) <= 1
        /\ StatsOf(u) = {} <=> EventsOf(u) = {}
        /\ \A r \in StatsOf(u) : r.total_events = Cardinality(EventsOf(u))

(* A user holds two events and the latest call stored nothing *)
C3_Witness ==
    /\ \E r \in stats : r.total_events >= 2 /\ r.total_purchases >= 1
    /\ Called(last) /\ last.outcome # "stored"

(* C7: for every payload that fails validation, store_event raises         *)
(* ValueError before any storage statement is issued, and no User, Event   *)
(* or Stats row is created or changed, also for an unseen user_id.         *)
C7_InvalidTouchesNothing ==
    [][(Called(last') /\ (last'.p \in InvalidPayloads \/ ~last'.verdict.ok))
        => /\ last'.outcome = "raised"
           /\ last'.exc = "ValueError"
           /\ last'.ops = 0
           /\ UNCHANGED <<users, events, stats>>]_vars

(* A purchase of a negative amount for an unseen user was refused *)
C7_Witness ==
    /\ Called(last) /\ last.exc = "ValueError"
    /\ last.verdict.msg = "Invalid amount (must be positive)"
    /\ last.p.user_id \in Users
    /\ ~\E u \in users : u.user_id = last.p.user_id
    /\ users # {}

TotalEvents(rows, user_id) ==
    IF \E r \in rows : r.user_id = user_id
    THEN (CHOOSE r \in rows : r.user_id = user_id).total_events
    ELSE 0

TotalPurchases(rows, user_id) ==
    IF \E r \in rows : r.user_id = user_id
    THEN (CHOOSE r \in rows : r.user_id = user_id).total_purchases
    ELSE 0

C27_UserCreatedOnce ==
    /\ [][Called(last')
            => IF /\ last'.outcome = "stored"
                  /\ ~\E u \in users : u.user_id = last'.p.user_id
               THEN \E u \in users' :
                        /\ users' = users \cup {u}
                        /\ u.user_id = last'.p.user_id
                        /\ u.email = GetEmail(last'.p)
                        /\ u.signup_date = fromisoformat(last'.p.timestamp).value
               ELSE users' = users]_vars
    /\ [](\A ev \in events :
            Cardinality({u \in users : u.user_id = ev.user_id}) = 1)

(* An event that carries an email was stored for a user whose row, created *)
(* by an earlier event without email, still has none                       *)
C27_Witness ==
    /\ Called(last) /\ last.outcome = "stored"
    /\ "email" \in last.p.keys
    /\ \E u \in users : u.user_id = last.p.user_id /\ u.email = "None"
    /\ Cardinality(EventsOf(last.p.user_id)) >= 2

(* C36: store_event returns without raising and without storing only when   *)
(* an Event row with the payload's event_id is committed; a uniqueness      *)
(* violation on another key, such as the email of a new user that another   *)
(* user holds, is not answered as a duplicate event.                        *)
C36_DuplicateMeansStored ==
    (Called(last) /\ last.exc = "" /\ last.outcome # "stored")
        => Stored(last.p.event_id)

----------------------------------------------------------------------------
(* Statistics of one user: amounts, durations and timestamps vary *)

StatsPayloads ==
    UNION {{Base("u1", e, "click", T1), Base("u1", e, "click", T2),
            WithAmount(Base("u1", e, "purchase", T1), Num(50000)),
            WithAmount(Base("u1", e, "purchase", T2), Num(30000)),
            WithAmount(Base("u1", e, "purchase", T1), Num(4)),
            WithAmount(Base("u1", e, "purchase", T1), NaN),
            WithDuration(Base("u1", e, "video", T1), Num(0)),
            WithDuration(Base("u1", e, "video", T1), Num(10)),
            WithDuration(Base("u1", e, "video", T2), Num(20))} : e \in EventIds}

StatsFaults == {"none", "commit"}

NextStats == \E p \in StatsPayloads, fault \in StatsFaults : StoreEvent(p, fault)

SpecStats == Init /\ [][NextStats]_vars

RECURSIVE SumAmounts(_)
SumAmounts(S) ==
    IF S = {} THEN 0
    ELSE LET x == CHOOSE y \in S : TRUE
         IN  x.amount.v + SumAmounts(S \ {x})

RECURSIVE SumDurations(_)
SumDurations(S) ==
    IF S = {} THEN 0
    ELSE LET x == CHOOSE y \in S : TRUE
         IN  x.duration.v + SumDurations(S \ {x})

(* The payload amounts of the stored purchase events of a user *)
PurchasesOf(user_id) ==
    {x \in paid : \E ev \in EventsOf(user_id) :
                    ev.event_id = x.event_id /\ ev.event_type = "purchase"}

(* C4: for every user, Stats.total_spent equals the exact decimal sum of   *)
(* amount over that user's stored purchase events.                         *)
C4_TotalSpentIsExactSum ==
    \A r \in stats :
        /\ \A x \in PurchasesOf(r.user_id) : x.amount.k = "num"
        /\ r.total_spent = Num(SumAmounts(PurchasesOf(r.user_id)))

(* The stored events of a user whose duration is not null *)
TimedEventsOf(user_id) == {ev \in EventsOf(user_id) : ev.duration.k # "none"}

(* C5: Stats.avg_session_duration equals the arithmetic mean of duration   *)
(* over the user's stored events whose stored duration is not null,        *)
(* durations of 0 included.                                                *)
C5_AverageIsMean ==
    \A r \in stats :
        TimedEventsOf(r.user_id) # {}
            => r.avg_session_duration.n * Cardinality(TimedEventsOf(r.user_id))
                 = SumDurations(TimedEventsOf(r.user_id)) * r.avg_session_duration.d

(* The latest of a set of instants, 0 (NULL) for none *)
Latest(S) == IF S = {} THEN 0 ELSE CHOOSE t \in S : \A other \in S : other <= t

(* C33: after any sequence of stored events, in whatever order of their     *)
(* timestamps, last_active of a user is the latest timestamp among the      *)
(* user's stored events and last_purchase the latest timestamp among the    *)
(* user's stored purchase events.                                           *)
C33_LastActiveIsLatest ==
    \A r \in stats :
        /\ r.last_active =
             Latest({ev.timestamp : ev \in {e \in events : e.user_id = r.user_id}})
        /\ r.last_purchase =
             Latest({ev.timestamp :
                        ev \in {e \in events : /\ e.user_id = r.user_id
                                               /\ e.event_type = "purchase"}})

(* The stats row of a user, the column defaults standing for no row *)
RowOf(rows, user_id) ==
    IF \E r \in rows : r.user_id = user_id
    THEN CHOOSE r \in rows : r.user_id = user_id
    ELSE NewStats(user_id)

(* C34: after any sequence of store_event calls, total_purchases of a user  *)
(* is the number of the user's stored purchase events, and storing an event *)
(* that is no purchase leaves total_purchases, total_spent and              *)
(* last_purchase of the user as they were.                                  *)
C34_PurchasesCounted ==
    /\ [](\A r \in stats :
            r.total_purchases =
                Cardinality({ev \in EventsOf(r.user_id) : ev.event_type = "purchase"}))
    /\ [][(Called(last') /\ last'.outcome = "stored"
                /\ last'.p.event_type # "purchase")
            => LET before == RowOf(stats, last'.p.user_id)
                   after == RowOf(stats', last'.p.user_id)
               IN  /\ after.total_purchases = before.total_purchases
                   /\ after.total_spent = before.total_spent
                   /\ after.last_purchase = before.last_purchase
                   /\ after.total_events = before.total_events + 1]_vars

(* A click was stored after a purchase of the same user: one purchase is    *)
(* counted among two events and the spend is the purchase's.                *)
C34_Witness ==
    /\ Called(last) /\ last.outcome = "stored" /\ last.p.event_type = "click"
    /\ \E r \in stats :
        /\ r.user_id = last.p.user_id
        /\ r.total_events = 2 /\ r.total_purchases = 1
        /\ r.total_spent = Num(50000)
        /\ r.last_purchase # 0 /\ r.last_active # r.last_purchase

----------------------------------------------------------------------------
(* High volume: one user, identifiers issued in sequence *)

VolumePayloads ==
    {WithAmount(Base("u1", e, "purchase", T1), Num(10000)) : e \in 1 .. MaxVolumeId}
        \cup {Base("u1", e, "click", T1) : e \in 1 .. MaxMixedId}

VolumeFaults == {"none", "commit"}

StoreNext(p, fault) ==
    /\ p.event_id <= Cardinality(events) + 1
    /\ StoreEvent(p, fault)

NextVolume == \E p \in VolumePayloads, fault \in VolumeFaults : StoreNext(p, fault)

SpecVolume == Init /\ [][NextVolume]_vars

(* C6: every Stats row has 0 <= engagement_score <= 100, and the score     *)
(* equals min(100, total_events * 0.5 + total_purchases * 5.0) of the      *)
(* row's counts.                                                           *)
C6_EngagementClamped ==
    \A r \in stats :
        LET halves == r.total_events + 10 * r.total_purchases
            score == r.engagement_score
        IN  /\ 0 <= score.n /\ score.n <= 100 * score.d
            /\ IF halves >= 200 THEN score.n = 100 * score.d
               ELSE 2 * score.n = halves * score.d

(* The unclamped value is above 100 and the score is 100 *)
C6_Witness ==
    \E r \in stats :
        /\ r.total_events + 10 * r.total_purchases > 200
        /\ r.engagement_score = [n |-> 100, d |-> 1]
        /\ r.total_events = Cardinality(events)

----------------------------------------------------------------------------
(* validate_event as a function of the payload *)

Amounts == {None, Str, NaN, Inf, Num(0), Num(-5000), Num(30000)}

ValidatePayloads ==
    LET full == {Base("u1", 1, t, ts) : t \in {"click", "purchase", "custom_kind"},
                                        ts \in {T1, BadDate, NotAString}}
        withAmount == full \cup {WithAmount(q, a) : q \in full, a \in Amounts}
    IN  {[q EXCEPT !.keys = @ \ missing] :
            q \in withAmount, missing \in SUBSET REQUIRED_FIELDS}

ValidateEvent(p) ==
    /\ last' = [op |-> "validate_event", p |-> p, outcome |-> "returned", ret |-> 0,
                exc |-> "", verdict |-> validate_event(p), ops |-> 0,
                fault |-> "none"]
    /\ UNCHANGED <<users, events, stats, paid>>
    /\ UNCHANGED <<coordinatorVars, writers>>

NextValidate == \E p \in ValidatePayloads : ValidateEvent(p)

SpecValidate == Init /\ [][NextValidate]_vars

Validated(l) == l.op = "validate_event"

MissingOf(p) == REQUIRED_FIELDS \ p.keys

AmountReasons ==
    {"Purchase event missing 'amount'", "Amount not numeric",
     "Invalid amount (must be positive)"}

(* C8: the rules apply in order: an absent required field gives 'Missing   *)
(* required fields' whatever the other fields are; otherwise a timestamp   *)
(* that does not parse gives 'Invalid timestamp format' with the raw       *)
(* value; the amount rule is reached only when both pass; a payload that   *)
(* passes all rules yields (True, None).                                   *)
C8_RulesInOrder ==
    Validated(last) =>
        LET q == last.p
            v == last.verdict
        IN  /\ MissingOf(q) # {}
                => (~v.ok /\ v.msg = "Missing required fields"
                        /\ v.missing = MissingOf(q))
            /\ (MissingOf(q) = {} /\ q.timestamp \notin IsoStrings)
                => (~v.ok /\ v.msg = "Invalid timestamp format"
                        /\ v.raw = q.timestamp)
            /\ v.msg \in AmountReasons
                => (MissingOf(q) = {} /\ q.timestamp \in IsoStrings)
            /\ v.ok <=> v.msg = ""
            /\ (MissingOf(q) = {} /\ q.timestamp \in IsoStrings
                    /\ q.event_type # "purchase")
                => v.ok

(* C9: a purchase that passes the earlier rules is accepted if and only if *)
(* amount is present, parses as a finite number and is greater than 0;     *)
(* each rejection names its case.                                          *)
C9_PurchaseAmountRule ==
    (/\ Validated(last)
     /\ MissingOf(last.p) = {}
     /\ last.p.timestamp \in IsoStrings
     /\ last.p.event_type = "purchase")
        => LET a == GetAmount(last.p)
               v == last.verdict
           IN  /\ v.ok <=> (a.k = "num" /\ a.v > 0)
               /\ a.k = "none" => v.msg = "Purchase event missing 'amount'"
               /\ a.k = "str" => v.msg = "Amount not numeric"
               /\ (a.k = "num" /\ a.v <= 0)
                    => v.msg = "Invalid amount (must be positive)"

----------------------------------------------------------------------------
(* The topic partition and KafkaConsumerService *)

Mail == "a@example.com"

NoPayload == Base("None", 0, "None", "None")

(* A message: its bytes decode to a JSON object (a dict), decode to another *)
(* JSON value (an array), or do not decode at all.                          *)
Message(json, value) == [json |-> json, value |-> value]

CoordinatorMessages ==
    {Message("object", WithEmail(Base("u1", 1, "click", T1), Mail)),
     Message("object", WithEmail(Base("u2", 2, "click", T1), Mail)),
     Message("object", Base("u2", 3, "click", T2)),
     Message("object", Without(Base("u1", 4, "click", T1), "event_type")),
     Message("array", NoPayload),
     Message("invalid", NoPayload)}

(* main(max_events=...): 0 stands for None *)
max_events == 2

(* What consumer.poll hands back: None, an exception, an error event, or a  *)
(* message of the partition with its key (none, text, or bytes that are no  *)
(* UTF-8)                                                                   *)
Timeout == [kind |-> "none"]

PollRaises == [kind |-> "raises"]

PollError(code) == [kind |-> "error", code |-> code]

Polled(offset, m, key) ==
    [kind |-> "message", topic |-> "user-events", partition |-> 0,
     offset |-> offset, m |-> m, key |-> key]

(* poll on the partition: the message at the position, None at its end *)
Fetch(lg, pos) == IF pos > Len(lg) THEN Timeout ELSE Polled(pos, lg[pos], "none")

(* Variant: every value is taken to decode *)
ValueDecodesAlways(json) == TRUE

(* json.loads(msg.value().decode("utf-8")) returns: the bytes are UTF-8 and *)
(* hold a JSON value                                                        *)
ValueDecodes(json) == json \in {"object", "array"}

(* What the caller of consume_message gets (msg 0 stands for None) and what *)
(* the call leaves: the consumer's position and is_connected                *)
Answer(offset, polled, pos, connected) ==
    [msg |-> offset, exc |-> "",
     topic |-> IF offset = 0 THEN "" ELSE polled.topic,
     partition |-> IF offset = 0 THEN 0 ELSE polled.partition,
     value |-> IF offset = 0 THEN NoPayload ELSE polled.m.value,
     position |-> pos, is_connected |-> connected]

(* consume_message: None when the consumer is not connected (poll is not    *)
(* called), when poll times out, raises or hands back an error event, when  *)
(* the value does not decode and when the key is no UTF-8; poll has moved   *)
(* the position past the message in the last two cases too.                 *)
consume_message(pos, connected, polled) ==
    IF ~connected THEN Answer(0, polled, pos, connected)
    ELSE IF polled.kind \in {"none", "raises"} THEN Answer(0, polled, pos, connected)
    ELSE IF polled.kind = "error"
        THEN Answer(0, polled, pos, polled.code # "_ALL_BROKERS_DOWN")
    ELSE IF ~ValueDecodes(polled.m.json) \/ polled.key = "bytes"
        THEN Answer(0, polled, polled.offset + 1, connected)
    ELSE Answer(polled.offset, polled, polled.offset + 1, connected)

(* commit_offset: consumer.commit(asynchronous=False) commits the current   *)
(* position; a failure is answered by False.                                *)
commit_offset(pos, com, ok) ==
    IF ok THEN [committed |-> pos, ret |-> TRUE]
    ELSE [committed |-> com, ret |-> FALSE]

(* What close() leaves: the committed offset, is_connected, the calls it    *)
(* made on the underlying consumer and whether that consumer is closed      *)
AfterClose(com, connected, commit_attempted, close_attempted, closed) ==
    [committed |-> com, is_connected |-> connected, exc |-> "",
     commit_attempted |-> commit_attempted, close_attempted |-> close_attempted,
     closed |-> closed]

(* Variant: the final commit and the close share one try block *)
close_in_one_try(consumer, connected, pos, com, commit_ok, close_ok) ==
    IF consumer = "None" THEN AfterClose(com, connected, FALSE, FALSE, FALSE)
    ELSE IF ~commit_ok THEN AfterClose(com, FALSE, TRUE, FALSE, FALSE)
    ELSE AfterClose(pos, FALSE, TRUE, TRUE, close_ok)

(* close(): with a consumer object, the final commit of the position and    *)
(* the close of the consumer, each in its own try (failures logged), then   *)
(* is_connected = False; without one, nothing.                              *)
close(consumer, connected, pos, com, commit_ok, close_ok) ==
    IF consumer = "None" THEN AfterClose(com, connected, FALSE, FALSE, FALSE)
    ELSE AfterClose(commit_offset(pos, com, commit_ok).committed, FALSE, TRUE, TRUE,
                    close_ok)

----------------------------------------------------------------------------
(* EventStorageService.log_dead_letter *)

(* Variant: the entry is always pending, whatever status is asked for *)
DeadLetterPending(rows, value, error_message, error_type, status) ==
    [id |-> Cardinality(rows) + 1,
     event_id |-> IF "event_id" \in value.keys THEN value.event_id ELSE 0,
     event_data |-> value, error_message |-> error_message,
     error_type |-> error_type, status |-> "pending", retry_count |-> 0]

DeadLetter(rows, value, error_message, error_type, status) ==
    [id |-> Cardinality(rows) + 1,
     event_id |-> IF "event_id" \in value.keys THEN value.event_id ELSE 0,
     event_data |-> value, error_message |-> error_message,
     error_type |-> error_type, status |-> status, retry_count |-> 0]

(* Variant: a failure to record is raised to the caller *)
log_dead_letter_raising(rows, m, error_message, error_type, status, ok) ==
    IF m.json = "object" /\ ok
    THEN [dlq |-> rows \cup {DeadLetter(rows, m.value, error_message, error_type,
                                        status)},
          ret |-> TRUE, exc |-> ""]
    ELSE [dlq |-> rows, ret |-> FALSE, exc |-> "Exception"]

(* event_data.get on a value that is no dict, db.add and db.commit all sit  *)
(* in the try block: every failure rolls back and answers False.            *)
log_dead_letter(rows, m, error_message, error_type, status, ok) ==
    IF m.json = "object" /\ ok
    THEN [dlq |-> rows \cup {DeadLetter(rows, m.value, error_message, error_type,
                                        status)},
          ret |-> TRUE, exc |-> ""]
    ELSE [dlq |-> rows, ret |-> FALSE, exc |-> ""]

(* store_event(db_session, msg["value"]): on a value that is no dict,       *)
(* validate_event answers (False, "Validation error: ...") from its         *)
(* catch-all handler and store_event raises ValueError.                     *)
StoreValue(db, m, fault) ==
    IF m.json = "object" THEN store_event(db, m.value, fault)
    ELSE Finish(db, "raised", 0, "ValueError",
                Verdict(FALSE, "Validation error", {}, ""), 0)

----------------------------------------------------------------------------
(* main: the consumption loop *)

CoordinatorFaults == {"none", "commit"}

MaxEventsReached == max_events # 0 /\ consumer_state.processed >= max_events

EventIdOf(m) ==
    IF m.json = "object" /\ "event_id" \in m.value.keys THEN m.value.event_id ELSE 0

(* str(e): the message of validate_event for a validation error; the text   *)
(* of another exception is reduced to its class name.                       *)
ErrorText(r) == IF r.exc = "ValueError" THEN r.verdict.msg ELSE r.exc

(* Variant: a failed commit_offset after a stored event is only logged *)
RouteCommitUncounted(counters, r, d, commit_ok) ==
    IF r.exc = "" /\ r.ret # 0
        THEN IF commit_ok THEN [counters EXCEPT !.processed = @ + 1]
             ELSE counters
    ELSE IF r.exc = "" THEN [counters EXCEPT !.duplicates = @ + 1]
    ELSE [counters EXCEPT !.dlq_logged = @ + 1, !.failed = @ + 1]

(* The counters after the routing of one message *)
Route(counters, r, d, commit_ok) ==
    IF r.exc = "" /\ r.ret # 0
        THEN IF commit_ok THEN [counters EXCEPT !.processed = @ + 1]
             ELSE [counters EXCEPT !.failed = @ + 1]
    ELSE IF r.exc = "" THEN [counters EXCEPT !.duplicates = @ + 1]
    ELSE IF r.exc = "ValueError"
        THEN [counters EXCEPT !.dlq_logged = @ + 1, !.failed = @ + 1]
    ELSE IF d.exc = ""
        THEN [counters EXCEPT !.dlq_logged = @ + 1, !.failed = @ + 1]
    ELSE [counters EXCEPT !.failed = @ + 1]

(* An exception of log_dead_letter leaves the ValueError handler, and with  *)
(* it the loop; the handler of the other exceptions catches it.             *)
Escapes(r, d) == r.exc = "ValueError" /\ d.exc # ""

(* A producer appends a message to the partition.  The consumer cannot      *)
(* tell a message that is not yet written from one it has not yet fetched,  *)
(* so messages are written when the consumer has caught up.                 *)
Produce(m) ==
    /\ Len(log) < MaxLog
    /\ position > Len(log)
    /\ pc = "loop"
    /\ log' = Append(log, m)
    /\ UNCHANGED <<writers, storageVars, dlq, position, committed, is_connected, msg, pc,
                   consumer_state, shutdown_requested, step, run>>

(* The top of the loop and consume_message *)
Consume ==
    /\ pc = "loop"
    /\ ~shutdown_requested
    /\ ~MaxEventsReached
    /\ is_connected
    /\ position <= Len(log)
    /\ run.polls < MaxPolls
    /\ \E c \in {consume_message(position, is_connected, Fetch(log, position))} :
        /\ position' = c.position
        /\ msg' = c.msg
        /\ pc' = IF c.msg = 0 THEN "loop" ELSE "process"
    /\ run' = [run EXCEPT !.polls = @ + 1]
    /\ UNCHANGED <<writers, storageVars, dlq, log, committed, is_connected, consumer_state,
                   shutdown_requested, step>>

(* poll answers the error _ALL_BROKERS_DOWN *)
BrokersDown ==
    /\ pc = "loop"
    /\ ~shutdown_requested
    /\ ~MaxEventsReached
    /\ is_connected
    /\ is_connected' =
         consume_message(position, is_connected,
                         PollError("_ALL_BROKERS_DOWN")).is_connected
    /\ UNCHANGED <<writers, storageVars, dlq, log, position, committed, msg, pc, consumer_state,
                   shutdown_requested, step, run>>

(* The rows the session of store_event has flushed when the statement named *)
(* by fault fails                                                           *)
PendingAt(db, p, fault) ==
    LET timestamp == fromisoformat(p.timestamp).value
        withUser == IF \E u \in db.users : u.user_id = p.user_id THEN db
                    ELSE [db EXCEPT !.users = @ \cup {NewUser(p, timestamp)}]
        withEvent == [withUser EXCEPT !.events = @ \cup {NewEvent(p, timestamp)}]
    IN  IF fault \in {"none", "lookup", "user"} THEN db
        ELSE IF fault = "event" THEN withUser
        ELSE IF fault = "stats" THEN withEvent
        ELSE store_event(db, p, "none").db

(* The session log_dead_letter is called on: a new one after a ValueError,  *)
(* after another exception the session of store_event, which its handler    *)
(* has rolled back.                                                         *)
DeadLetterSession(db, m, fault, r) ==
    IF r.exc = "ValueError" THEN r.db
    ELSE Rollback(r.db, PendingAt(db, m.value, fault))

(* The tables once log_dead_letter is through: its db.commit() commits all  *)
(* that its session holds, its db.rollback() drops it.                      *)
Published(r, d, session) ==
    IF d.ret THEN Commit(r.db, session) ELSE Rollback(r.db, session)

(* SessionLocal() calls while one message is handled: one before            *)
(* store_event, and one more in the handler of ValueError, which binds the  *)
(* new session to db_session in place of the first.                         *)
SessionsOpened(r) == IF r.exc = "ValueError" THEN 2 ELSE 1

(* finally: db_session.close(), on the session db_session is bound to *)
SessionsClosed(r) == 1

(* The body of the loop for the message in hand: store, route, commit.  A   *)
(* failing dead-letter write is an input only where the write is attempted. *)
Process(fault, dlq_ok, commit_ok) ==
    /\ pc = "process"
    /\ \E r \in {StoreValue(Db(users, events, stats), log[msg], fault)} :
       \E d \in {IF r.exc = "" THEN [dlq |-> dlq, ret |-> FALSE, exc |-> ""]
                 ELSE log_dead_letter(dlq, log[msg], ErrorText(r), r.exc, "pending",
                                      dlq_ok)} :
       \E after \in {IF r.exc = "" THEN r.db
                     ELSE Published(r, d, DeadLetterSession(Db(users, events, stats),
                                                            log[msg], fault, r))} :
        /\ fault = "none" \/ r.exc = "SQLAlchemyError"
        /\ dlq_ok \/ (r.exc # "" /\ log[msg].json = "object")
        /\ users' = after.users
        /\ events' = after.events
        /\ stats' = after.stats
        /\ paid' = IF r.outcome = "stored"
                   THEN paid \cup {[event_id |-> log[msg].value.event_id,
                                    amount |-> GetAmount(log[msg].value)]}
                   ELSE paid
        /\ last' = [op |-> "store_event", p |-> log[msg].value, outcome |-> r.outcome,
                    ret |-> r.ret, exc |-> r.exc, verdict |-> r.verdict,
                    ops |-> r.ops, fault |-> fault]
        /\ dlq' = d.dlq
        /\ consumer_state' = IF Escapes(r, d) THEN consumer_state
                             ELSE Route(consumer_state, r, d, commit_ok)
        /\ \E close_ok \in IF Escapes(r, d) THEN BOOLEAN ELSE {TRUE} :
            committed' = IF Escapes(r, d)
                         THEN close("Consumer", is_connected, position, committed,
                                    commit_ok, close_ok).committed
                         ELSE commit_offset(position, committed, commit_ok).committed
        /\ pc' = IF Escapes(r, d) THEN "exited" ELSE "loop"
        /\ is_connected' = IF Escapes(r, d) THEN FALSE ELSE is_connected
        /\ msg' = 0
        /\ step' = [op |-> "process", offset |-> msg, outcome |-> r.outcome,
                    exc |-> r.exc, ret |-> r.ret, dlq_attempted |-> r.exc # "",
                    dlq_written |-> d.ret, commit_attempted |-> ~Escapes(r, d),
                    commit_ok |-> commit_ok,
                    was_stored |-> (EventIdOf(log[msg]) # 0
                                        /\ Stored(EventIdOf(log[msg]))),
                    fault |-> fault,
                    opened |-> SessionsOpened(r), closed |-> SessionsClosed(r)]
        /\ run' = [run EXCEPT
                     !.attempted = @ \cup {msg},
                     !.failed_for =
                         IF consumer_state'.failed > consumer_state.failed
                         THEN @ \cup {msg} ELSE @,
                     !.seen = IF EventIdOf(log[msg]) # 0
                              THEN @ \cup {EventIdOf(log[msg])} ELSE @,
                     !.ideal = IF EventIdOf(log[msg]) # 0
                                   /\ EventIdOf(log[msg]) \notin run.seen
                               THEN store_event(@, log[msg].value, fault).db
                               ELSE @,
                     !.faulted = @ \/ fault # "none" \/ ~dlq_ok,
                     !.handled = @ + 1]
    /\ UNCHANGED <<writers, log, position, shutdown_requested>>

(* signal_handler.  The flag is read at the top of the loop only, so a      *)
(* signal that arrives while a message is handled is taken there.           *)
Signal ==
    /\ pc = "loop"
    /\ ~shutdown_requested
    /\ shutdown_requested' = TRUE
    /\ UNCHANGED <<writers, storageVars, dlq, log, position, committed, is_connected, msg, pc,
                   consumer_state, step, run>>

(* The loop ends (the flag, or the limit) and the consumer is closed *)
Exit(commit_ok, close_ok) ==
    /\ pc = "loop"
    /\ shutdown_requested \/ MaxEventsReached
    /\ \E c \in {close("Consumer", is_connected, position, committed, commit_ok,
                       close_ok)} :
        /\ committed' = c.committed
        /\ is_connected' = c.is_connected
    /\ pc' = "exited"
    /\ UNCHANGED <<writers, storageVars, dlq, log, position, msg, consumer_state,
                   shutdown_requested, step, run>>

(* A new process (after an exit, or a crash between two messages)          *)
(* connects: fresh globals, and the group's committed offset is where it    *)
(* resumes.                                                                 *)
Restart ==
    /\ pc # "process"
    /\ position' = committed
    /\ msg' = 0
    /\ pc' = "loop"
    /\ is_connected' = TRUE
    /\ consumer_state' = ZeroCounters
    /\ shutdown_requested' = FALSE
    /\ run' = [run EXCEPT !.handled = 0]
    /\ UNCHANGED <<writers, storageVars, dlq, log, committed, step>>

InitCoordinator ==
    /\ InitStorage
    /\ InitConsumer
    /\ log = <<>>
    /\ writers = [w \in Writers |-> Idle]

NextCoordinator ==
    \/ \E m \in CoordinatorMessages : Produce(m)
    \/ Consume
    \/ BrokersDown
    \/ \E fault \in CoordinatorFaults, dlq_ok \in BOOLEAN, commit_ok \in BOOLEAN :
           Process(fault, dlq_ok, commit_ok)
    \/ Signal
    \/ \E commit_ok \in BOOLEAN, close_ok \in BOOLEAN : Exit(commit_ok, close_ok)
    \/ Restart

SpecCoordinator == InitCoordinator /\ [][NextCoordinator]_vars

----------------------------------------------------------------------------
(* Properties of the consumption loop under SpecCoordinator *)

(* The step handles the message in hand *)
Handles == pc = "process" /\ pc' # "process"

(* The committed offset covers the message at offset o *)
Covered(o) == o < committed

FailsValidation(m) == m.json # "object" \/ ~validate_event(m.value).ok

(* Dead-letter rows that hold the payload of message m *)
LettersOf(rows, m) == {d \in rows : m.json = "object" /\ d.event_data = m.value}

(* C11: the committed offset never covers a delivered message for which no  *)
(* storage attempt has concluded, the messages that consume_message         *)
(* discards included.                                                       *)
C11_CommitOnlyAfterAttempt ==
    \A o \in 1 .. Len(log) : Covered(o) => o \in run.attempted

(* C12: when store_event fails on a storage error and the dead-letter write *)
(* fails too, the offset of the message is not committed.                   *)
C12_OutageKeepsOffset ==
    [][(Handles /\ step'.exc = "SQLAlchemyError" /\ ~step'.dlq_written)
        => committed' <= step'.offset]_vars

(* C13: for a message whose store_event raises anything but a validation    *)
(* error, a dead-letter row with status pending, the exception's class name *)
(* and the payload is recorded, failed is incremented and the offset is     *)
(* committed (where the broker accepts the commit).                         *)
C13_OtherErrorsDeadLettered ==
    [][(Handles /\ step'.exc \notin {"", "ValueError"})
        => /\ \E d \in dlq' \ dlq :
                /\ d.status = "pending"
                /\ d.error_type = step'.exc
                /\ d.event_data = log[msg].value
           /\ consumer_state'.failed = consumer_state.failed + 1
           /\ step'.commit_attempted
           /\ step'.commit_ok => committed' > step'.offset]_vars

(* C14: once a message that fails validation has been handled, exactly one  *)
(* dead-letter row exists for it (one per such message of the partition,    *)
(* however often it is delivered), pending, with retry_count 0 and the      *)
(* original payload; failed and dlq_logged are incremented by one each and  *)
(* the offset is committed (where the broker accepts the commit).           *)
C14_OneDeadLetterPerInvalid ==
    [][(Handles /\ FailsValidation(log[msg]))
        => /\ Cardinality(LettersOf(dlq', log[msg]))
                = Cardinality({o \in run'.attempted : log[o] = log[msg]})
           /\ \A d \in LettersOf(dlq', log[msg]) :
                d.status = "pending" /\ d.retry_count = 0
           /\ consumer_state'.failed = consumer_state.failed + 1
           /\ consumer_state'.dlq_logged = consumer_state.dlq_logged + 1
           /\ step'.commit_attempted
           /\ step'.commit_ok => committed' > step'.offset]_vars

(* C15: processed is incremented exactly for the messages whose event was   *)
(* newly stored, duplicates exactly for the messages whose event_id was     *)
(* already stored, and in both cases the offset is committed.               *)
C15_CountersMatchOutcome ==
    [][Handles
        => /\ (consumer_state'.processed = consumer_state.processed + 1)
                <=> (step'.outcome = "stored")
           /\ (consumer_state'.duplicates = consumer_state.duplicates + 1)
                <=> step'.was_stored
           /\ (step'.outcome = "stored" \/ step'.was_stored)
                => step'.commit_attempted]_vars

(* C16: every delivered message whose offset is committed has left a trace: *)
(* its event is stored, or a dead-letter row holds its payload, or the      *)
(* failed counter was incremented for it.                                   *)
C16_NothingSilentlyDropped ==
    \A o \in 1 .. Len(log) :
        Covered(o) =>
            \/ EventIdOf(log[o]) # 0 /\ Stored(EventIdOf(log[o]))
            \/ LettersOf(dlq, log[o]) # {}
            \/ o \in run.failed_for

(* C17: whatever is delivered again (a failed offset commit, a restart      *)
(* before the commit), as long as no storage statement fails, the User,     *)
(* Event and Stats tables equal those that handling each distinct event_id  *)
(* once, in order of first delivery, produces.                              *)
C17_EffectivelyOnce ==
    ~run.faulted => Db(users, events, stats) = run.ideal

(* C18: between two messages, for every valid message handled so far, the   *)
(* event is stored if and only if the message's offset is committed.        *)
C18_StoredIffCommitted ==
    pc # "process" =>
        \A o \in run.attempted :
            ~FailsValidation(log[o])
                => (Stored(EventIdOf(log[o])) <=> Covered(o))

(* C20: whatever the outcome of handling a message (stored, duplicate,      *)
(* validation failure, storage exception, failed dead-letter write, failed  *)
(* offset commit), the loop goes on to its next iteration; it is left only  *)
(* at its top, with the shutdown flag set or the limit of events reached.   *)
C20_LoopSurvivesEveryMessage ==
    [][/\ pc = "process" => pc' \in {"process", "loop"}
       /\ (pc # "exited" /\ pc' = "exited")
            => (pc = "loop" /\ (shutdown_requested \/ MaxEventsReached))]_vars

(* The loop is back at its top after a message failed validation, its       *)
(* dead-letter write failed and its offset commit failed.                   *)
C20_Witness ==
    /\ pc = "loop"
    /\ step.op = "process" /\ step.exc = "ValueError"
    /\ step.dlq_attempted /\ ~step.dlq_written
    /\ step.commit_attempted /\ ~step.commit_ok
    /\ ~shutdown_requested /\ ~MaxEventsReached

(* C23: when store_event fails and a dead-letter entry is recorded (on the  *)
(* session of store_event after a storage error, on a new session after a   *)
(* validation error), the commit of the entry makes none of the User, Event *)
(* or Stats writes of the failed call visible, and no step removes a        *)
(* dead-letter entry.                                                       *)
C23_DeadLetterIndependent ==
    [][/\ (Handles /\ step'.exc # "")
            => /\ users' = users /\ events' = events /\ stats' = stats
               /\ step'.dlq_written => dlq' # dlq
       /\ dlq \subseteq dlq']_vars

(* A failed db.commit() of store_event, with the user, the event and the    *)
(* stats flushed, was followed by a dead-letter entry written on the same   *)
(* session.                                                                 *)
C23_Witness ==
    /\ step.op = "process" /\ step.fault = "commit"
    /\ step.exc = "SQLAlchemyError" /\ step.dlq_written
    /\ \E d \in dlq : d.error_type = "SQLAlchemyError" /\ ~Stored(d.event_id)
                       /\ ~\E u \in users : u.user_id = d.event_data.user_id

(* C31: whatever the outcome of a message (stored, duplicate, validation    *)
(* error, other exception), every session opened while it was handled is    *)
(* closed when the loop is back at its head.                                *)
C31_SessionsClosed ==
    pc = "loop" => step.closed = step.opened

(* get_stats: total_events *)
ReportedTotal(counters) == counters.processed + counters.failed + counters.duplicates

(* C37: every message the loop handles increments exactly one of processed, *)
(* failed and duplicates, by one; at every loop head their sum, the         *)
(* reported total_events, is the number of messages the process has         *)
(* handled; no other step of the process changes a counter.                 *)
C37_OneCounterPerMessage ==
    /\ [](pc = "loop" => ReportedTotal(consumer_state) = run.handled)
    /\ [][/\ Handles
             => \E c \in {"processed", "failed", "duplicates"} :
                   /\ consumer_state'[c] = consumer_state[c] + 1
                   /\ \A o \in {"processed", "failed", "duplicates"} \ {c} :
                         consumer_state'[o] = consumer_state[o]
          /\ (~Handles /\ run'.handled = run.handled)
             => consumer_state' = consumer_state]_vars

(* One process has handled a stored event, a rejected one and one answered  *)
(* by None, and reports three events.                                       *)
C37_Witness ==
    /\ pc = "loop"
    /\ consumer_state.processed = 1 /\ consumer_state.failed = 1
    /\ consumer_state.duplicates = 1
    /\ run.handled = 3

(* C38: dlq_logged counts the dead-letter entries the process has           *)
(* persisted: handling a message increments it by one when log_dead_letter  *)
(* has written the entry and leaves it alone otherwise, in particular when  *)
(* log_dead_letter answers False.                                           *)
C38_DlqLoggedCountsEntries ==
    [][Handles
        => consumer_state'.dlq_logged
             = consumer_state.dlq_logged + (IF step'.dlq_written THEN 1 ELSE 0)]_vars

----------------------------------------------------------------------------
(* One run of main, with the points at which a signal can arrive: between   *)
(* the test of the flag and consume_message, during the poll, and while a   *)
(* message is handled.                                                      *)

(* Variant: the loop does not test the flag *)
LoopConditionIgnored(flag) == TRUE

(* while not shutdown_requested *)
LoopCondition(flag) == ~flag

(* The top of the loop: the flag and the limit let the iteration begin *)
Enter ==
    /\ pc = "loop"
    /\ LoopCondition(shutdown_requested)
    /\ ~MaxEventsReached
    /\ pc' = "poll"
    /\ UNCHANGED <<writers, storageVars, dlq, log, position, committed, is_connected, msg,
                   consumer_state, shutdown_requested, step, run>>

(* consume_message returns: a message, or None (timeout, not connected,     *)
(* undecodable value, or the error _ALL_BROKERS_DOWN when down is set)      *)
Poll(down) ==
    /\ pc = "poll"
    /\ down => is_connected
    /\ \E c \in {consume_message(position, is_connected,
                                 IF down THEN PollError("_ALL_BROKERS_DOWN")
                                 ELSE Fetch(log, position))} :
        /\ position' = c.position
        /\ msg' = c.msg
        /\ pc' = IF c.msg = 0 THEN "loop" ELSE "process"
        /\ is_connected' = c.is_connected
        /\ run' = [run EXCEPT
                     !.polls = IF c.position > position THEN @ + 1 ELSE @,
                     !.after_flag = IF c.position > position /\ shutdown_requested
                                    THEN @ + 1 ELSE @]
    /\ UNCHANGED <<writers, storageVars, dlq, log, committed, consumer_state,
                   shutdown_requested, step>>

(* signal_handler, at any point of the run *)
Interrupt ==
    /\ pc \in {"loop", "poll", "process"}
    /\ ~shutdown_requested
    /\ shutdown_requested' = TRUE
    /\ run' = [run EXCEPT !.interrupted = msg]
    /\ UNCHANGED <<writers, storageVars, dlq, log, position, committed, is_connected, msg, pc,
                   consumer_state, step>>

(* The messages of the run: one that is stored, one that fails validation   *)
(* and one that does not decode                                             *)
ShutdownMessages ==
    {Message("object", WithEmail(Base("u1", 1, "click", T1), Mail)),
     Message("object", Without(Base("u1", 4, "click", T1), "event_type")),
     Message("invalid", NoPayload)}

NextShutdown ==
    \/ \E m \in ShutdownMessages : Len(log) < MaxShutdownLog /\ Produce(m)
    \/ Enter
    \/ \E down \in BOOLEAN : Poll(down)
    \/ \E fault \in CoordinatorFaults, dlq_ok \in BOOLEAN, commit_ok \in BOOLEAN :
           Process(fault, dlq_ok, commit_ok)
    \/ Interrupt
    \/ \E commit_ok \in BOOLEAN, close_ok \in BOOLEAN : Exit(commit_ok, close_ok)

(* The steps of the running program *)
Runs ==
    \/ Enter
    \/ \E down \in BOOLEAN : Poll(down)
    \/ \E fault \in CoordinatorFaults, dlq_ok \in BOOLEAN, commit_ok \in BOOLEAN :
           Process(fault, dlq_ok, commit_ok)
    \/ \E commit_ok \in BOOLEAN, close_ok \in BOOLEAN : Exit(commit_ok, close_ok)

(* The process keeps running: a poll returns within its timeout and every   *)
(* call of the loop body returns.                                           *)
SpecShutdown == InitCoordinator /\ [][NextShutdown]_vars /\ WF_vars(Runs)

(* C21: a message in hand when the flag is set is handled to the end        *)
(* (storage outcome, dead letter where one is due, offset commit) before    *)
(* anything else happens; at most one message is fetched after the flag is  *)
(* set; once the flag is set the loop exits, close() is called at the exit, *)
(* with no message in hand, and nothing runs after it.                      *)
C21_CooperativeShutdown ==
    /\ [][/\ (pc = "process" /\ shutdown_requested /\ pc' # pc)
               => /\ pc' = "loop"
                  /\ step'.offset = msg
                  /\ step'.commit_attempted
                  /\ step'.exc # "" => step'.dlq_attempted
          /\ (pc # "exited" /\ pc' = "exited")
               => /\ pc = "loop" /\ msg = 0
                  /\ ~is_connected'
                  /\ run.interrupted # 0 => run.interrupted \in run.attempted
          /\ pc = "exited" => pc' = "exited"]_vars
    /\ [](run.after_flag <= 1)
    /\ (shutdown_requested ~> pc = "exited")

(* The run has ended after a signal that arrived while a message was being  *)
(* handled, and that message was handled to the end.                        *)
C21_Witness ==
    /\ pc = "exited"
    /\ run.interrupted # 0
    /\ step.offset = run.interrupted
    /\ step.commit_attempted
    /\ run.after_flag = 0

(* The message at offset o has been fetched and is no longer in hand *)
Consumed(o) == o < position /\ msg # o

(* C39: while the process runs and no shutdown is asked for, every message  *)
(* of the partition is eventually polled and handled, also a message that   *)
(* is written after consume_message has met the error _ALL_BROKERS_DOWN.    *)
C39_EveryMessageConsumed ==
    \A o \in 1 .. MaxShutdownLog :
        (o <= Len(log)) ~> (Consumed(o) \/ shutdown_requested \/ pc = "exited")

----------------------------------------------------------------------------
(* log_dead_letter called directly, on a session with nothing pending *)

(* The payloads handed over: a dict, a dict without event_id, and a value   *)
(* that is no dict                                                          *)
DeadLetterValues ==
    {Message("object", Base("u1", 1, "click", T1)),
     Message("object", Without(Base("u1", 1, "click", T1), "event_id")),
     Message("array", NoPayload)}

ErrorMessages == {"Missing required fields", "connection lost"}

ErrorTypes == {"ValueError", "OperationalError"}

(* status: str = "pending" *)
Statuses == {"omitted", "pending", "dead"}

StatusArgument(status) == IF status = "omitted" THEN "pending" ELSE status

(* ok: db.add and db.commit go through *)
LogDeadLetter(m, error_message, error_type, status, ok) ==
    /\ Cardinality(dlq) < MaxLetters
    /\ \E d \in {log_dead_letter(dlq, m, error_message, error_type,
                                 StatusArgument(status), ok)} :
        /\ dlq' = d.dlq
        /\ last' = [op |-> "log_dead_letter", m |-> m, error_message |-> error_message,
                    error_type |-> error_type, status |-> status, ok |-> ok,
                    ret |-> d.ret, exc |-> d.exc]
    /\ UNCHANGED <<users, events, stats, paid, log, position, committed, is_connected,
                   msg, pc, consumer_state, shutdown_requested, step, run, writers>>

NextDeadLetter ==
    \E m \in DeadLetterValues, error_message \in ErrorMessages,
       error_type \in ErrorTypes, status \in Statuses, ok \in BOOLEAN :
        LogDeadLetter(m, error_message, error_type, status, ok)

SpecDeadLetter == Init /\ [][NextDeadLetter]_vars

(* C22: log_dead_letter raises nothing.  Where nothing fails it returns     *)
(* True and the table has exactly one more row, holding the payload, the    *)
(* error type and message as given, the status asked for (pending when none *)
(* is given) and retry_count 0; where anything fails it returns False and   *)
(* the table is as before.                                                  *)
C22_DeadLetterNeverRaises ==
    [][last'.op = "log_dead_letter"
        => /\ last'.exc = ""
           /\ last'.ret <=> (last'.ok /\ last'.m.json = "object")
           /\ last'.ret =>
                \E d \in dlq' \ dlq :
                    /\ dlq' = dlq \cup {d}
                    /\ d.event_data = last'.m.value
                    /\ d.error_type = last'.error_type
                    /\ d.error_message = last'.error_message
                    /\ d.status = (IF last'.status = "omitted" THEN "pending"
                                   ELSE last'.status)
                    /\ d.retry_count = 0
           /\ ~last'.ret => dlq' = dlq]_vars

(* A second entry was recorded, with status dead, next to a pending one *)
C22_Witness ==
    /\ last.op = "log_dead_letter"
    /\ last.ret /\ last.status = "dead"
    /\ Cardinality(dlq) = 2
    /\ \E d \in dlq : d.status = "pending"

----------------------------------------------------------------------------
(* consume_message called directly, on every outcome of poll *)

KafkaErrors == {"_PARTITION_EOF", "_ALL_BROKERS_DOWN", "UNKNOWN_TOPIC_OR_PART"}

(* Values: a JSON object, a JSON array, text that is no JSON, bytes that    *)
(* are no UTF-8, and no value at all (msg.value() is None)                  *)
PolledValues ==
    {Message("object", Base("u1", 1, "click", T1)),
     Message("object", Without(Base("u1", 1, "click", T1), "event_type")),
     Message("array", NoPayload),
     Message("invalid", NoPayload),
     Message("not_utf8", NoPayload),
     Message("no_value", NoPayload)}

Keys == {"none", "text", "bytes"}

PollOutcomes(pos) ==
    {Timeout, PollRaises}
        \cup {PollError(code) : code \in KafkaErrors}
        \cup {Polled(pos, m, key) : m \in PolledValues, key \in Keys}

ConsumeMessage(polled) ==
    /\ position <= MaxOffset
    /\ \E c \in {consume_message(position, is_connected, polled)} :
        /\ position' = c.position
        /\ is_connected' = c.is_connected
        /\ last' = [op |-> "consume_message", polled |-> polled,
                    connected |-> is_connected, ret |-> c]
    /\ UNCHANGED <<users, events, stats, paid, dlq, log, committed, msg, pc,
                   consumer_state, shutdown_requested, step, run, writers>>

(* connect() succeeds *)
Connect ==
    /\ ~is_connected
    /\ is_connected' = TRUE
    /\ last' = [op |-> "connect"]
    /\ UNCHANGED <<users, events, stats, paid, dlq, log, position, committed, msg, pc,
                   consumer_state, shutdown_requested, step, run, writers>>

NextConsume ==
    \/ \E polled \in PollOutcomes(position) : ConsumeMessage(polled)
    \/ Connect

SpecConsume == Init /\ [][NextConsume]_vars

(* The call hands a message to its caller *)
Delivers(l) ==
    /\ l.connected
    /\ l.polled.kind = "message"
    /\ l.polled.m.json \in {"object", "array"}
    /\ l.polled.key # "bytes"

(* C24: consume_message raises nothing.  It returns None when the consumer  *)
(* is not connected, when poll times out, raises or reports an error, when  *)
(* the value does not decode and when anything else fails; otherwise it     *)
(* returns the message's topic, partition, offset and decoded value.        *)
(* is_connected becomes False on _ALL_BROKERS_DOWN and is left alone        *)
(* otherwise.                                                               *)
C24_ConsumeNeverRaises ==
    [][last'.op = "consume_message"
        => /\ last'.ret.exc = ""
           /\ last'.ret.msg # 0 <=> Delivers(last')
           /\ Delivers(last')
                => /\ last'.ret.msg = last'.polled.offset
                   /\ last'.ret.topic = last'.polled.topic
                   /\ last'.ret.partition = last'.polled.partition
                   /\ last'.ret.value = last'.polled.m.value
           /\ is_connected' =
                (is_connected /\ ~(last'.polled.kind = "error"
                                   /\ last'.polled.code = "_ALL_BROKERS_DOWN"))]_vars

(* A connected consumer polled a value that is no JSON and answered None *)
C24_Witness ==
    /\ last.op = "consume_message"
    /\ last.connected
    /\ last.polled.kind = "message" /\ last.polled.m.json = "invalid"
    /\ last.ret.msg = 0 /\ last.ret.exc = ""

----------------------------------------------------------------------------
(* get_consumer_lag, on what the broker reports for the assigned partitions *)

(* main(topics="a,b"): the subscription may name several topics *)
Topics == {"user-events", "orders"}

Partitions == {0, 1}

(* committed(...)[0].offset of a partition without a commit, as the code    *)
(* tests for it                                                             *)
NoCommit == -1

(* An assigned partition with its watermarks and its committed offset *)
TopicPartitions ==
    {[topic |-> t, partition |-> n, low |-> low, high |-> high, committed |-> c] :
        t \in Topics, n \in Partitions, low \in 0 .. 1, high \in 0 .. MaxMark,
        c \in -1 .. MaxMark}

Reported ==
    {tp \in TopicPartitions :
        /\ tp.low <= tp.high
        /\ tp.committed = NoCommit \/ (tp.low <= tp.committed /\ tp.committed <= tp.high)}

(* consumer.assignment(): a list without repetition *)
Assignments ==
    {<<>>} \cup {<<tp>> : tp \in Reported}
        \cup {<<a, b>> : a, b \in {tp \in Reported : tp.high = MaxMark}}

Assigned ==
    {a \in Assignments :
        \A i, j \in 1 .. Len(a) :
            (a[i].topic = a[j].topic /\ a[i].partition = a[j].partition) => i = j}

(* The broker call that fails *)
LagFaults == {"none", "assignment", "get_watermark_offsets", "committed"}

(* The loop over the assignment: lag_info[partition.partition] = lag *)
RECURSIVE LagInfo(_, _)
LagInfo(assignments, lag_info) ==
    IF assignments = <<>> THEN lag_info
    ELSE LET tp == Head(assignments)
             committed_offset == IF tp.committed = -1 THEN tp.low ELSE tp.committed
             lag == tp.high - committed_offset
         IN  LagInfo(Tail(assignments),
                     [k \in DOMAIN lag_info \cup {tp.partition} |->
                        IF k = tp.partition THEN lag ELSE lag_info[k]])

get_consumer_lag(assignments, fault) ==
    IF fault = "assignment" THEN [none |-> TRUE, lag_info |-> <<>>, exc |-> ""]
    ELSE IF assignments = <<>> THEN [none |-> TRUE, lag_info |-> <<>>, exc |-> ""]
    ELSE IF fault # "none" THEN [none |-> TRUE, lag_info |-> <<>>, exc |-> ""]
    ELSE [none |-> FALSE, lag_info |-> LagInfo(assignments, <<>>), exc |-> ""]

InitLag ==
    /\ users = {} /\ events = {} /\ stats = {} /\ paid = {} /\ dlq = {}
    /\ InitConsumer
    /\ log = <<>>
    /\ writers = [w \in Writers |-> Idle]
    /\ last \in {[op |-> "broker", assignments |-> a, fault |-> f] :
                    a \in Assigned, f \in LagFaults}

GetConsumerLag ==
    /\ last.op = "broker"
    /\ last' = [op |-> "get_consumer_lag", assignments |-> last.assignments,
                fault |-> last.fault,
                ret |-> get_consumer_lag(last.assignments, last.fault)]
    /\ UNCHANGED <<users, events, stats, paid, dlq, log, position, committed,
                   is_connected, msg, pc, consumer_state, shutdown_requested, step,
                   run, writers>>

NextLag == GetConsumerLag

SpecLag == InitLag /\ [][NextLag]_vars

(* The lag of an assigned partition: newest offset minus committed offset,  *)
(* the oldest offset standing in where nothing is committed                 *)
LagOf(tp) == tp.high - (IF tp.committed = NoCommit THEN tp.low ELSE tp.committed)

(* C25: get_consumer_lag raises nothing; it returns None when nothing is    *)
(* assigned or a broker call fails, and otherwise a mapping that gives, for *)
(* every assigned partition, the lag of that partition.                     *)
C25_LagPerPartition ==
    last.op = "get_consumer_lag"
        => /\ last.ret.exc = ""
           /\ last.ret.none <=> (last.assignments = <<>> \/ last.fault # "none")
           /\ ~last.ret.none
                => \A i \in 1 .. Len(last.assignments) :
                    /\ last.assignments[i].partition \in DOMAIN last.ret.lag_info
                    /\ last.ret.lag_info[last.assignments[i].partition]
                         = LagOf(last.assignments[i])

----------------------------------------------------------------------------
(* close() called directly, on a service in any state it can be in *)

(* self.consumer: None before connect() has built one *)
Consumers == {"None", "Consumer"}

(* The service before the call: is_connected is True only with a consumer   *)
(* object; the position is at or past the committed offset.                 *)
InitClose ==
    /\ users = {} /\ events = {} /\ stats = {} /\ paid = {} /\ dlq = {}
    /\ log = <<>>
    /\ writers = [w \in Writers |-> Idle]
    /\ msg = 0 /\ pc = "loop" /\ consumer_state = ZeroCounters
    /\ shutdown_requested = FALSE /\ step = NoStep /\ run = NoRun
    /\ position \in 1 .. MaxOffset
    /\ committed \in 1 .. position
    /\ is_connected \in BOOLEAN
    /\ last \in {[op |-> "service", consumer |-> c, commit_ok |-> commit_ok,
                  close_ok |-> close_ok] :
                    c \in Consumers, commit_ok \in BOOLEAN, close_ok \in BOOLEAN}
    /\ last.consumer = "None" => ~is_connected /\ position = committed

Close ==
    /\ last.op = "service"
    /\ \E c \in {close(last.consumer, is_connected, position, committed,
                       last.commit_ok, last.close_ok)} :
        /\ committed' = c.committed
        /\ is_connected' = c.is_connected
        /\ last' = [op |-> "close", consumer |-> last.consumer,
                    commit_ok |-> last.commit_ok, close_ok |-> last.close_ok,
                    was_connected |-> is_connected, was_committed |-> committed,
                    ret |-> c]
    /\ UNCHANGED <<users, events, stats, paid, dlq, log, position, msg, pc,
                   consumer_state, shutdown_requested, step, run, writers>>

NextClose == Close

SpecClose == InitClose /\ [][NextClose]_vars

(* C26: close() raises nothing and leaves is_connected False.  On a service *)
(* that holds a consumer it attempts the final commit of the position and   *)
(* then the close of the consumer, the close also when the commit failed;   *)
(* a failed commit leaves the committed offset as it was.                   *)
C26_CloseNeverRaises ==
    last.op = "close"
        => /\ last.ret.exc = ""
           /\ ~is_connected
           /\ last.consumer # "None"
                => /\ last.ret.commit_attempted
                   /\ last.ret.close_attempted
                   /\ last.ret.closed <=> last.close_ok
                   /\ committed = IF last.commit_ok THEN position
                                  ELSE last.was_committed

(* A connected service was closed although its final commit failed *)
C26_Witness ==
    /\ last.op = "close"
    /\ last.was_connected /\ ~last.commit_ok
    /\ last.ret.close_attempted /\ last.ret.closed
    /\ committed < position
    /\ ~is_connected

----------------------------------------------------------------------------
(* The readers: get_user_stats, get_user_profile, get_dlq_summary.  ok: the *)
(* queries go through; a failing query is caught by the reader.             *)

(* What a reader hands back: None (none), or a dict with its keys *)
Absent == [none |-> TRUE, keys |-> {}, exc |-> ""]

Present(d) == [none |-> FALSE, keys |-> DOMAIN d, dict |-> d, exc |-> ""]

(* x.isoformat() if x else None: 0 stands for NULL and for None *)
IsoFormat(t) == t

get_user_stats(db, user_id, ok) ==
    IF ~ok THEN Absent
    ELSE IF ~\E r \in db.stats : r.user_id = user_id THEN Absent
    ELSE LET row == CHOOSE r \in db.stats : r.user_id = user_id
         IN  Present([user_id |-> user_id,
                      total_events |-> row.total_events,
                      total_purchases |-> row.total_purchases,
                      total_spent |-> row.total_spent,
                      last_active |-> IsoFormat(row.last_active),
                      last_purchase |-> IsoFormat(row.last_purchase),
                      avg_session_duration |-> row.avg_session_duration,
                      engagement_score |-> row.engagement_score])

get_user_profile(db, user_id, ok) ==
    IF ~ok THEN Absent
    ELSE IF ~\E u \in db.users : u.user_id = user_id THEN Absent
    ELSE LET user == CHOOSE u \in db.users : u.user_id = user_id
             profile == [user_id |-> user.user_id, email |-> user.email,
                         signup_date |-> IsoFormat(user.signup_date)]
         IN  IF \E r \in db.stats : r.user_id = user_id
             THEN LET row == CHOOSE r \in db.stats : r.user_id = user_id
                  IN  Present([user_id |-> profile.user_id, email |-> profile.email,
                               signup_date |-> profile.signup_date,
                               stats |-> [total_events |-> row.total_events,
                                          total_purchases |-> row.total_purchases,
                                          total_spent |-> row.total_spent,
                                          engagement_score |-> row.engagement_score]])
             ELSE Present(profile)

(* Variant: a failing query is raised to the caller *)
get_dlq_summary_raising(rows, ok) ==
    IF ~ok THEN [none |-> FALSE, keys |-> {}, exc |-> "Exception"]
    ELSE Present([total_failed |-> Cardinality(rows),
                  by_error_type |->
                      [t \in {d.error_type : d \in rows} |->
                          Cardinality({d \in rows : d.error_type = t})],
                  recent_entries |->
                      {[event_id |-> d.event_id, error_type |-> d.error_type] :
                          d \in rows}])

(* recent_entries: the ten latest rows; the tables of the model hold fewer *)
get_dlq_summary(rows, ok) ==
    IF ~ok THEN Present([error |-> "Exception"])
    ELSE Present([total_failed |-> Cardinality(rows),
                  by_error_type |->
                      [t \in {d.error_type : d \in rows} |->
                          Cardinality({d \in rows : d.error_type = t})],
                  recent_entries |->
                      {[event_id |-> d.event_id, error_type |-> d.error_type] :
                          d \in rows}])

(* The users asked for: the users of the events, and one without any row *)
AskedUsers == Users \cup {"u9"}

Readers == {"get_user_stats", "get_user_profile", "get_dlq_summary"}

Read(reader, user_id, ok) ==
    /\ reader = "get_dlq_summary" => user_id = "u9"
    /\ last' = [op |-> reader, user_id |-> user_id, ok |-> ok,
                ret |-> IF reader = "get_user_stats"
                            THEN get_user_stats(Db(users, events, stats), user_id, ok)
                        ELSE IF reader = "get_user_profile"
                            THEN get_user_profile(Db(users, events, stats), user_id, ok)
                        ELSE get_dlq_summary(dlq, ok)]
    /\ UNCHANGED <<users, events, stats, paid, dlq, log, position, committed,
                   is_connected, msg, pc, consumer_state, shutdown_requested, step,
                   run, writers>>

(* Writers and readers of the tables, in any order *)
TablePayloads ==
    {Base("u1", 1, "click", T1),
     WithEmail(Base("u2", 1, "click", T2), Mail),
     WithAmount(Base("u1", 2, "purchase", T2), Num(30000)),
     WithEmail(Base("u2", 2, "click", T1), Mail),
     Without(Base("u1", 2, "click", T1), "event_type")}

TableFaults == {"none", "commit"}

NextTables ==
    \/ \E p \in TablePayloads, fault \in TableFaults : StoreEvent(p, fault)
    \/ \E p \in TablePayloads, ok \in BOOLEAN :
        LogDeadLetter(Message("object", p), "Missing required fields", "ValueError",
                      "omitted", ok)
    \/ \E reader \in Readers, user_id \in AskedUsers, ok \in BOOLEAN :
        Read(reader, user_id, ok)

SpecTables == Init /\ [][NextTables]_vars

(* C28: no call of store_event, log_dead_letter or a reader changes or      *)
(* removes a committed Event row, so the stored event_ids only grow; no two *)
(* Event rows have the same event_id.                                       *)
C28_EventsWriteOnce ==
    /\ [][events \subseteq events']_vars
    /\ [](\A a, b \in events : a.event_id = b.event_id => a = b)

(* A stored event was offered again with another user and kind, next to a   *)
(* dead-letter write and a read, and its row is as it was stored.           *)
C28_Witness ==
    /\ Called(last) /\ last.outcome = "duplicate"
    /\ \E ev \in events :
        /\ ev.event_id = last.p.event_id
        /\ ev.user_id # last.p.user_id
    /\ dlq # {}
    /\ Cardinality(events) = 2

(* C29: a reader changes no row and raises nothing; get_user_stats and      *)
(* get_user_profile answer None for a user without row and when the query  *)
(* fails, and a dict otherwise; get_dlq_summary answers a dict that has the *)
(* key error when the query fails, and the summary otherwise.               *)
C29_ReadersOnlyRead ==
    [][last'.op \in Readers
        => /\ UNCHANGED <<users, events, stats, dlq>>
           /\ last'.ret.exc = ""
           /\ last'.op = "get_user_stats"
                => (last'.ret.none
                        <=> (~last'.ok \/ StatsOf(last'.user_id) = {}))
           /\ last'.op = "get_user_profile"
                => (last'.ret.none
                        <=> (~last'.ok
                                \/ ~\E u \in users : u.user_id = last'.user_id))
           /\ last'.op = "get_dlq_summary"
                => /\ ~last'.ret.none
                   /\ "error" \in last'.ret.keys <=> ~last'.ok
                   /\ last'.ok => last'.ret.dict.total_failed = Cardinality(dlq)]_vars

(* With events and a dead letter stored, get_dlq_summary met a failing      *)
(* query and answered the error payload.                                    *)
C29_Witness ==
    /\ last.op = "get_dlq_summary" /\ ~last.ok
    /\ last.ret.keys = {"error"}
    /\ events # {} /\ dlq # {}

----------------------------------------------------------------------------
(* The mock event generator: UserEventGenerator.generate_user_event and     *)
(* UserEvent.to_dict, feeding store_event as the pipeline test does.        *)

(* class EventType *)
EventType ==
    {"login", "logout", "page_view", "click", "purchase", "video_watch",
     "search", "cart_add", "cart_remove", "share"}

(* The fields every UserEvent model has, by name *)
UserEventFields ==
    {"event_id", "user_id", "session_id", "event_type", "timestamp", "device",
     "country", "ip_address", "page", "referrer", "duration_seconds", "value",
     "currency", "metadata"}

(* The fields the specialised models add *)
ModelFields(event_type) ==
    IF event_type = "purchase" THEN {"product_id", "quantity", "category"}
    ELSE IF event_type = "video_watch"
        THEN {"video_id", "watched_percentage", "video_duration"}
    ELSE IF event_type = "click"
        THEN {"element_id", "element_type", "x_coordinate", "y_coordinate"}
    ELSE IF event_type = "search" THEN {"query", "results_count", "category"}
    ELSE {}

(* The event model built for the chosen type: PurchaseEvent carries the     *)
(* price in value, VideoWatchEvent the watched time in duration_seconds;    *)
(* event_id is the uuid4 default, timestamp a datetime.                     *)
generate_user_event(user_id, event_id, event_type, timestamp, price, watched_seconds) ==
    [fields |-> UserEventFields \cup ModelFields(event_type),
     event_id |-> event_id, user_id |-> user_id, event_type |-> event_type,
     timestamp |-> timestamp,
     value |-> IF event_type = "purchase" THEN Num(price) ELSE None,
     duration_seconds |-> IF event_type = "video_watch" THEN Num(watched_seconds)
                          ELSE None]

(* model_dump(mode='json') of a datetime: its ISO string *)
DumpDatetime(t) ==
    IF t = 1 THEN "2024-01-15T10:00:00"
    ELSE IF t = 2 THEN "2024-01-15T11:00:00"
    ELSE BadDate

(* to_dict: one key per field of the model, under the field's name; the     *)
(* enum by its value, the datetime by its ISO string.  The dict has no key  *)
(* amount, duration or email.                                               *)
to_dict(event) ==
    [keys |-> event.fields, user_id |-> event.user_id, event_id |-> event.event_id,
     event_type |-> event.event_type, timestamp |-> DumpDatetime(event.timestamp),
     amount |-> None, duration |-> None, email |-> "None",
     value |-> event.value, duration_seconds |-> event.duration_seconds]

GeneratedIds == 1 .. MaxGenerated
GeneratedTimes == {1, 2}
Prices == {200000}          \* round(price, 2), in mills: the cheapest price
WatchedSeconds == {30}

(* test_pipeline_user_creation_and_flush: generate, to_dict, store_event,   *)
(* get_user_stats.  A uuid4 is an identifier no stored event has.           *)
Pipeline(user_id, event_id, event_type, timestamp, price, watched_seconds) ==
    \E event \in {generate_user_event(user_id, event_id, event_type, timestamp,
                                      price, watched_seconds)} :
    \E r \in {store_event(Db(users, events, stats), to_dict(event), "none")} :
        /\ ~ExistingEvent(Db(users, events, stats), event_id)
        /\ users' = r.db.users
        /\ events' = r.db.events
        /\ stats' = r.db.stats
        /\ paid' = IF r.outcome = "stored"
                   THEN paid \cup {[event_id |-> event_id,
                                    amount |-> GetAmount(to_dict(event))]}
                   ELSE paid
        /\ last' = [op |-> "generate_user_event", event |-> event,
                    p |-> to_dict(event), outcome |-> r.outcome, ret |-> r.ret,
                    exc |-> r.exc, verdict |-> r.verdict,
                    stats |-> get_user_stats(r.db, user_id, TRUE)]
        /\ UNCHANGED <<coordinatorVars, writers>>

NextGenerator ==
    \E user_id \in Users, event_id \in GeneratedIds, event_type \in EventType,
       timestamp \in GeneratedTimes, price \in Prices,
       watched_seconds \in WatchedSeconds :
        Pipeline(user_id, event_id, event_type, timestamp, price, watched_seconds)

SpecGenerator == Init /\ [][NextGenerator]_vars

(* C30: every generated event, of every event type, serialized with         *)
(* to_dict, is accepted by store_event: the call raises nothing, the event  *)
(* is stored, and the user's stats show total_events >= 1.                  *)
C30_GeneratedEventsStored ==
    [][last'.op = "generate_user_event"
        => /\ last'.exc = ""
           /\ last'.outcome = "stored"
           /\ \E ev \in events' : ev.event_id = last'.event.event_id
           /\ ~last'.stats.none
           /\ last'.stats.dict.total_events >= 1]_vars

----------------------------------------------------------------------------
(* The stats as a view of the event rows.  Two databases take store_event   *)
(* calls of their own: the tables, and a second database kept in last.db.   *)
(* Were a stats row a function of the user's event rows, equal event rows   *)
(* would go with equal stats rows.                                          *)

RebuildPayloads ==
    UNION {{Base("u1", e, "click", T1),
            WithAmount(Base("u1", e, "purchase", T1), Num(30000)),
            WithAmount(Base("u1", e, "purchase", T1), Num(50000)),
            WithDuration(Base("u1", e, "video", T1), Num(10)),
            WithDuration(Base("u1", e, "video", T2), Num(20))} : e \in EventIds}

(* store_event on the tables *)
StoreFirst(p) ==
    \E r \in {store_event(Db(users, events, stats), p, "none")} :
        /\ users' = r.db.users
        /\ events' = r.db.events
        /\ stats' = r.db.stats
        /\ paid' = IF r.outcome = "stored"
                   THEN paid \cup {[event_id |-> p.event_id, amount |-> GetAmount(p)]}
                   ELSE paid
        /\ last' = [op |-> "second", db |-> IF last.op = "second" THEN last.db
                                            ELSE EmptyDb]
        /\ UNCHANGED <<coordinatorVars, writers>>

(* store_event on the second database *)
StoreSecond(p) ==
    /\ last' = [op |-> "second",
                db |-> store_event(IF last.op = "second" THEN last.db ELSE EmptyDb,
                                   p, "none").db]
    /\ UNCHANGED <<users, events, stats, paid, coordinatorVars, writers>>

NextRebuild ==
    \/ \E p \in RebuildPayloads : StoreFirst(p)
    \/ \E p \in RebuildPayloads : StoreSecond(p)

SpecRebuild == Init /\ [][NextRebuild]_vars

(* The fields of a stats row that the event rows are to determine *)
Derived(row) ==
    [total_events |-> row.total_events, total_purchases |-> row.total_purchases,
     total_spent |-> row.total_spent,
     avg_session_duration |-> row.avg_session_duration,
     engagement_score |-> row.engagement_score]

(* C32: a user's stats row (total_events, total_purchases, total_spent,     *)
(* avg_session_duration, engagement_score) is determined by the user's      *)
(* stored event rows alone: two databases that hold the same event rows of  *)
(* a user hold the same values in the user's stats row.                     *)
C32_StatsDerivedFromEvents ==
    last.op = "second" =>
        \A u \in Users :
            {ev \in events : ev.user_id = u} = {ev \in last.db.events : ev.user_id = u}
                => {Derived(r) : r \in {s \in stats : s.user_id = u}}
                     = {Derived(r) : r \in {s \in last.db.stats : s.user_id = u}}

----------------------------------------------------------------------------
(* Concurrent store_event calls.  Each session runs the statements of       *)
(* store_event in order, one step per statement; a query reads the          *)
(* committed tables (READ COMMITTED), a flushed INSERT stays pending in the *)
(* session until commit or rollback, and an INSERT that collides with a     *)
(* pending row of another session on a unique index waits for that session  *)
(* to finish.  The UPDATE of the stats row is flushed by db.commit() and     *)
(* sets the columns the session has changed.                                *)

RacePayloads ==
    {Base("u1", 1, "click", T1),
     WithAmount(Base("u1", 1, "purchase", T2), Num(30000)),
     Base("u2", 1, "click", T1),
     Base("u1", 2, "click", T1),
     WithAmount(Base("u1", 2, "purchase", T1), Num(50000))}

(* The tables the race starts from: empty, or holding one event of u1 *)
RaceStartDbs == {EmptyDb, store_event(EmptyDb, Base("u1", 3, "click", T1), "none").db}

RaceFaults == {"none", "commit"}

Others(w) == {o \in Writers \ {w} : writers[o].pc \notin {"idle", "done"}}

(* return / raise: the session is rolled back or committed, nothing pending *)
Done(wr, outcome, ret, exc, key) ==
    [wr EXCEPT !.pc = "done", !.users = {}, !.events = {}, !.stats = {},
               !.outcome = outcome, !.ret = ret, !.exc = exc, !.key = key]

(* Variant: the uniqueness violation is raised to the caller *)
UniqueViolationRaised(wr, key) == Done(wr, "raised", 0, "IntegrityError", key)

(* except IntegrityError: rollback, and None for "unique constraint" or     *)
(* "duplicate key"                                                          *)
UniqueViolation(wr, key) == Done(wr, "conflict", 0, "", key)

(* store_event is entered: step 1, validation *)
Call(w, p) ==
    /\ writers[w].pc = "idle"
    /\ writers' = [writers EXCEPT ![w] =
           IF validate_event(p).ok THEN [@ EXCEPT !.pc = "lookup", !.p = p]
           ELSE Done([@ EXCEPT !.p = p], "raised", 0, "ValueError", "")]
    /\ UNCHANGED <<storageVars, coordinatorVars>>

(* Step 2: the duplicate check *)
Lookup(w) ==
    /\ writers[w].pc = "lookup"
    /\ writers' = [writers EXCEPT ![w] =
           IF ExistingEvent(Db(users, events, stats), @.p.event_id)
           THEN Done(@, "duplicate", @.p.event_id, "", "")
           ELSE [@ EXCEPT !.pc = "user_query", !.passed_lookup = TRUE]]
    /\ UNCHANGED <<storageVars, coordinatorVars>>

(* Step 3: db.query(User) *)
UserQuery(w) ==
    /\ writers[w].pc = "user_query"
    /\ writers' = [writers EXCEPT ![w].pc =
           IF \E u \in users : u.user_id = writers[w].p.user_id
           THEN "event_insert" ELSE "user_insert"]
    /\ UNCHANGED <<storageVars, coordinatorVars>>

(* Step 3: db.add(user); db.flush() *)
UserInsert(w) ==
    LET wr == writers[w]
        user == NewUser(wr.p, fromisoformat(wr.p.timestamp).value)
    IN  /\ wr.pc = "user_insert"
        /\ \A o \in Others(w) : \A u \in writers[o].users :
               u.user_id # user.user_id /\ (user.email = "None" \/ u.email # user.email)
        /\ writers' = [writers EXCEPT ![w] =
               IF \E u \in users : u.user_id = user.user_id
                   THEN UniqueViolation(@, "users.user_id")
               ELSE IF EmailTaken(Db(users, events, stats), user.email)
                   THEN UniqueViolation(@, "users.email")
               ELSE [@ EXCEPT !.pc = "event_insert", !.users = {user}]]
        /\ UNCHANGED <<storageVars, coordinatorVars>>

(* Step 4: the count of timed events (when the payload has a duration) and  *)
(* db.add(user_event); db.flush()                                           *)
EventInsert(w) ==
    LET wr == writers[w]
        dv == GetDuration(wr.p)
        user_event == NewEvent(wr.p, fromisoformat(wr.p.timestamp).value)
    IN  /\ wr.pc = "event_insert"
        /\ \A o \in Others(w) : \A ev \in writers[o].events :
               ev.event_id # user_event.event_id
        /\ writers' = [writers EXCEPT ![w] =
               IF Truthy(dv) /\ dv.k # "num"
                   THEN Done(@, "raised", 0, "ValueError", "")
               ELSE IF \E ev \in events : ev.event_id = user_event.event_id
                   THEN UniqueViolation(@, "user_events.event_id")
               ELSE [@ EXCEPT !.pc = "stats_query", !.events = {user_event},
                              !.old_duration_count =
                                  DurationCount(Db(users, events, stats), wr.p.user_id)]]
        /\ UNCHANGED <<storageVars, coordinatorVars>>

(* Step 5: db.query(UserStats) *)
StatsQuery(w) ==
    LET wr == writers[w]
        found == {r \in stats : r.user_id = wr.p.user_id}
    IN  /\ wr.pc = "stats_query"
        /\ writers' = [writers EXCEPT ![w] =
               IF found # {}
               THEN [@ EXCEPT !.pc = "commit", !.row = CHOOSE r \in found : TRUE]
               ELSE [@ EXCEPT !.pc = "stats_insert"]]
        /\ UNCHANGED <<storageVars, coordinatorVars>>

(* Step 5: db.add(stats); db.flush() *)
StatsInsert(w) ==
    LET wr == writers[w]
    IN  /\ wr.pc = "stats_insert"
        /\ \A o \in Others(w) : \A r \in writers[o].stats : r.user_id # wr.p.user_id
        /\ writers' = [writers EXCEPT ![w] =
               IF \E r \in stats : r.user_id = wr.p.user_id
               THEN UniqueViolation(@, "user_stats.user_id")
               ELSE [@ EXCEPT !.pc = "commit", !.stats = {NewStats(wr.p.user_id)},
                              !.row = NewStats(wr.p.user_id)]]
        /\ UNCHANGED <<storageVars, coordinatorVars>>

(* The row after the UPDATE that the flush of db.commit() issues: the       *)
(* columns whose value the session changed on the object it loaded are set  *)
(* to the session's values, the others keep what the row holds by then.     *)
WrittenRow(current, loaded, p, timestamp, old_duration_count) ==
    LET new == UpdateStats(loaded, p, timestamp, old_duration_count)
    IN  [c \in DOMAIN new |-> IF new[c] # loaded[c] THEN new[c] ELSE current[c]]

(* Steps 5 and 6: the updates of the loaded stats object, written by        *)
(* db.commit()                                                              *)
CommitTx(w, fault) ==
    LET wr == writers[w]
        timestamp == fromisoformat(wr.p.timestamp).value
        current == IF \E r \in stats : r.user_id = wr.p.user_id
                   THEN CHOOSE r \in stats : r.user_id = wr.p.user_id
                   ELSE wr.row
    IN  /\ wr.pc = "commit"
        /\ IF fault = "commit"
           THEN /\ writers' = [writers EXCEPT ![w] =
                       Done(@, "raised", 0, "SQLAlchemyError", "")]
                /\ UNCHANGED storageVars
           ELSE /\ users' = users \cup wr.users
                /\ events' = events \cup wr.events
                /\ stats' = {r \in stats : r.user_id # wr.p.user_id}
                       \cup {WrittenRow(current, wr.row, wr.p, timestamp,
                                         wr.old_duration_count)}
                /\ paid' = paid \cup {[event_id |-> wr.p.event_id,
                                       amount |-> GetAmount(wr.p)]}
                /\ writers' = [writers EXCEPT ![w] =
                       Done(@, "stored", wr.p.event_id, "", "")]
                /\ UNCHANGED last
        /\ UNCHANGED coordinatorVars

InitRace ==
    /\ \E db \in RaceStartDbs :
        /\ users = db.users
        /\ events = db.events
        /\ stats = db.stats
    /\ paid = {}
    /\ last = NoCall
    /\ dlq = {}
    /\ InitConsumer
    /\ log = <<>>
    /\ writers = [w \in Writers |-> Idle]

NextRace ==
    \E w \in Writers :
        \/ \E p \in RacePayloads : Call(w, p)
        \/ Lookup(w)
        \/ UserQuery(w)
        \/ UserInsert(w)
        \/ EventInsert(w)
        \/ StatsQuery(w)
        \/ StatsInsert(w)
        \/ \E fault \in RaceFaults : CommitTx(w, fault)

SpecRace == InitRace /\ [][NextRace]_vars

----------------------------------------------------------------------------
(* Properties of concurrent calls under SpecRace *)

(* Both calls are over, they carried the same event_id, both passed the     *)
(* duplicate lookup and no storage statement failed.                        *)
Raced ==
    /\ \A w \in Writers : writers[w].pc = "done" /\ writers[w].passed_lookup
    /\ \A w \in Writers : writers[w].exc # "SQLAlchemyError"
    /\ \A v, w \in Writers : writers[v].p.event_id = writers[w].p.event_id

RacedId == (CHOOSE w \in Writers : TRUE)

OneRowOnce ==
    /\ Cardinality({ev \in events : ev.event_id = writers[RacedId].p.event_id}) = 1
    /\ \A r \in stats :
           r.total_events = Cardinality({ev \in events : ev.user_id = r.user_id})
    /\ \A u \in users : \E ev \in events : ev.user_id = u.user_id

(* Both calls are over and both stored their event: distinct identifiers,   *)
(* one user, who had an event and a stats row before either call began.     *)
BothStored ==
    /\ \A w \in Writers : writers[w].pc = "done" /\ writers[w].outcome = "stored"
    /\ \A v, w \in Writers :
           /\ writers[v].p.user_id = writers[w].p.user_id
           /\ v # w => writers[v].p.event_id # writers[w].p.event_id
    /\ \E ev \in events :
           /\ ev.user_id = writers[RacedId].p.user_id
           /\ \A w \in Writers : ev.event_id # writers[w].p.event_id

(* C35: when two store_event transactions for distinct event_ids of one     *)
(* existing user interleave and both commit, no update is lost: the user's  *)
(* total_events is the number of the user's stored events and total_spent   *)
(* the sum of the stored purchases.                                         *)
C35_NoLostUpdate ==
    BothStored =>
        \A r \in stats :
            r.user_id = writers[RacedId].p.user_id
                => /\ r.total_events = Cardinality(EventsOf(r.user_id))
                   /\ r.total_spent = Num(SumAmounts(PurchasesOf(r.user_id)))

(* C19 as stated: after two writers raced on one event_id, exactly one      *)
(* Event row is committed and Stats reflect it once; the loser rolled back  *)
(* and got what a duplicate found by the lookup gets: the identifier        *)
(* returned, no exception.                                                  *)
C19_LoserReturnsId ==
    Raced =>
        /\ OneRowOnce
        /\ \A w \in Writers :
               writers[w].exc = "" /\ writers[w].ret = writers[w].p.event_id

(* C19, amended: after two writers raced on one event_id, exactly one Event *)
(* row is committed, Stats reflect it once and the loser's pending rows are *)
(* rolled back; the loser raises nothing and returns None.                  *)
C19_LoserReturnsNone ==
    Raced =>
        /\ OneRowOnce
        /\ \E w \in Writers : writers[w].outcome = "stored"
        /\ \A w \in Writers :
               writers[w].outcome # "stored"
                   => /\ writers[w].outcome = "conflict"
                      /\ writers[w].exc = ""
                      /\ writers[w].ret = 0

(* Both passed the lookup and one of them met the unique index on event_id  *)
C19_Witness ==
    /\ Raced
    /\ \E w \in Writers : /\ writers[w].outcome = "conflict"
                          /\ writers[w].key = "user_events.event_id"

====
